---- MODULE Spec2Model ----
(***************************************************************************)
(* Model of the Cassette Configuration (CCFG) parser.                      *)
(*                                                                         *)
(* The token layer (context.c, substitution.c) is a family of operators    *)
(* that take a context record and return a result record                   *)
(*     [ctx, type, token, num]                                             *)
(* exactly as the C functions take `struct context *` and return an        *)
(* `enum token` while writing the token buffer and *math_result.           *)
(* The sequence layer (sequence.c) is a state machine: one step per        *)
(* handler entry and one step per turn of a handler's token loop, with an  *)
(* explicit call stack for the dispatcher calls made by FOR and INCLUDE.   *)
(*                                                                         *)
(* Characters are strings of length one, the source buffer and the tokens  *)
(* are strings; the terminating NUL of a C string is the empty string.     *)
(***************************************************************************)
EXTENDS Integers, Sequences, FiniteSets, TLC

(***************************************************************************)
(* Program constants                                                       *)
(***************************************************************************)
CONTEXT_MAX_DEPTH == 32
TOKEN_MAX_LEN == 1024
SIZE_MAX == 2147483647

CONTEXT_DICT_VARIABLE == "VARIABLE"
CONTEXT_DICT_ITERATION == "ITERATION"
CONTEXT_DICT_SECTION == "SECTION"

(***************************************************************************)
(* Bounds of the model                                                     *)
(***************************************************************************)
\* capacity of a book, in words: the write after it latches the book's error
MaxWords == 160
\* the value counter n of a declaration loop is only compared with 0: it
\* saturates at MaxCount
MaxCount == 3
\* number of lines of the generated sources
MaxLines == 2
\* number of calls a scripted embedding program makes after its set-up
MaxCalls == 2
\* doubles are fixed-point numbers with NumDigits fractional digits
NumDigits == 3

NUL == ""

(***************************************************************************)
(* Book: ordered groups of words (cbook).  newgrp is the pending           *)
(* "next write opens a new group" mark, err the latched overflow error.    *)
(***************************************************************************)
EmptyBook == [groups |-> <<>>, newgrp |-> FALSE, err |-> FALSE]

RECURSIVE SumLen(_, _)
SumLen(groups, n) ==
    IF n = 0 THEN 0 ELSE Len(groups[n]) + SumLen(groups, n - 1)

cbook_length(b) == IF b.err THEN 0 ELSE SumLen(b.groups, Len(b.groups))

cbook_groups_number(b) == IF b.err THEN 0 ELSE Len(b.groups)

cbook_group_length(b, g) ==
    IF b.err \/ g < 0 \/ g >= Len(b.groups) THEN 0 ELSE Len(b.groups[g + 1])

cbook_word_in_group(b, g, i) ==
    IF b.err \/ g < 0 \/ g >= Len(b.groups) THEN ""
    ELSE IF i < 0 \/ i >= Len(b.groups[g + 1]) THEN ""
    ELSE b.groups[g + 1][i + 1]

cbook_word_index(b, g, i) ==
    IF b.err \/ g < 0 \/ g >= Len(b.groups) THEN 0
    ELSE SumLen(b.groups, g) + i

cbook_prepare_new_group(b) == IF b.err THEN b ELSE [b EXCEPT !.newgrp = TRUE]

cbook_undo_new_group(b) == IF b.err THEN b ELSE [b EXCEPT !.newgrp = FALSE]

cbook_write(b, w) ==
    IF b.err THEN b
    ELSE IF SumLen(b.groups, Len(b.groups)) >= MaxWords
         THEN [b EXCEPT !.err = TRUE]
    ELSE IF b.newgrp \/ b.groups = <<>>
         THEN [b EXCEPT !.groups = Append(@, <<w>>), !.newgrp = FALSE]
    ELSE [b EXCEPT !.groups[Len(b.groups)] = Append(@, w)]

cbook_clear(b) == IF b.err THEN b ELSE [b EXCEPT !.groups = <<>>, !.newgrp = FALSE]

(***************************************************************************)
(* Dictionary: (key, group) -> value (cdict), a function on pairs.         *)
(***************************************************************************)
EmptyDict == << >>

cdict_has(d, key, grp) == <<key, grp>> \in DOMAIN d

cdict_find(d, key, grp) == cdict_has(d, key, grp)

cdict_value(d, key, grp) == d[<<key, grp>>]

cdict_write(d, key, grp, val) ==
    [k \in (DOMAIN d) \cup {<<key, grp>>} |->
        IF k = <<key, grp>> THEN val ELSE d[k]]

cdict_erase(d, key, grp) ==
    [k \in (DOMAIN d) \ {<<key, grp>>} |-> d[k]]


(***************************************************************************)
(* Token kinds and the keyword table (token_match).                        *)
(***************************************************************************)
TOKEN_INVALID == "INVALID"
TOKEN_STRING == "STRING"
TOKEN_NUMBER == "NUMBER"

Keywords ==
    [k \in {"//", "EOF", "\\", "=", "JOIN", "$",
            "?<", "?<=", "?>", "?>=", "?=", "?!=",
            "TRUE", "FALSE", "ABS", "+", "-", "*", "MAX", "MIN",
            "LET", "LET_APPEND", "LET_PREPEND", "LET_MERGE", "ENUM",
            "SECTION", "SECTION_ADD", "SECTION_DEL", "INCLUDE",
            "FOR", "FOR_END", "SEED", "PRINT", "RESTRICT"} |->
        CASE k = "//" -> "COMMENT"
          [] k = "EOF" -> "EOF"
          [] k = "\\" -> "ESCAPE"
          [] k = "=" -> "FILLER"
          [] k = "JOIN" -> "JOIN"
          [] k = "$" -> "VAR_INJECTION"
          [] k = "?<" -> "IF_LESS"
          [] k = "?<=" -> "IF_LESS_EQ"
          [] k = "?>" -> "IF_MORE"
          [] k = "?>=" -> "IF_MORE_EQ"
          [] k = "?=" -> "IF_EQ"
          [] k = "?!=" -> "IF_EQ_NOT"
          [] k = "TRUE" -> "CONST_TRUE"
          [] k = "FALSE" -> "CONST_FALSE"
          [] k = "ABS" -> "OP_ABS"
          [] k = "+" -> "OP_ADD"
          [] k = "-" -> "OP_SUBSTRACT"
          [] k = "*" -> "OP_MULTIPLY"
          [] k = "MAX" -> "OP_BIGGEST"
          [] k = "MIN" -> "OP_SMALLEST"
          [] k = "LET" -> "VAR_DECLARATION"
          [] k = "LET_APPEND" -> "VAR_APPEND"
          [] k = "LET_PREPEND" -> "VAR_PREPEND"
          [] k = "LET_MERGE" -> "VAR_MERGE"
          [] k = "ENUM" -> "ENUM_DECLARATION"
          [] k = "SECTION" -> "SECTION_BEGIN"
          [] k = "SECTION_ADD" -> "SECTION_ADD"
          [] k = "SECTION_DEL" -> "SECTION_DEL"
          [] k = "INCLUDE" -> "INCLUDE"
          [] k = "FOR" -> "FOR_BEGIN"
          [] k = "FOR_END" -> "FOR_END"
          [] k = "SEED" -> "SEED"
          [] k = "PRINT" -> "PRINT"
          [] k = "RESTRICT" -> "RESTRICT"]

token_match(token) ==
    IF token = "" THEN TOKEN_INVALID
    ELSE IF token \in DOMAIN Keywords THEN Keywords[token] ELSE TOKEN_STRING

(***************************************************************************)
(* Numbers.  A double is the integer value * 10^NumDigits.                 *)
(***************************************************************************)
RECURSIVE Pow10(_)
Pow10(n) == IF n = 0 THEN 1 ELSE 10 * Pow10(n - 1)

NumScale == Pow10(NumDigits)

Digits == <<"0", "1", "2", "3", "4", "5", "6", "7", "8", "9">>

IsDigit(c) == \E d \in 1..10 : Digits[d] = c

DigitVal(c) == (CHOOSE d \in 1..10 : Digits[d] = c) - 1

CharAt(s, p) == IF p >= 1 /\ p <= Len(s) THEN SubSeq(s, p, p) ELSE NUL

\* the digits of s from position p on: [val, n (digits read), pos (after)]
RECURSIVE ScanDigits(_, _, _, _, _)
ScanDigits(s, p, val, n, keep) ==
    IF IsDigit(CharAt(s, p))
    THEN ScanDigits(s, p + 1,
                    IF n < keep THEN val * 10 + DigitVal(CharAt(s, p)) ELSE val,
                    n + 1, keep)
    ELSE [val |-> val, n |-> n, pos |-> p]

\* strtod(token, NULL) on a decimal literal; 0 when no number can be read
strtod(s) ==
    LET Mag(ip, fp) ==
            ip.val * NumScale
            + fp.val * Pow10(NumDigits - (IF fp.n < NumDigits THEN fp.n ELSE NumDigits))
        Value(ip, fp) ==
            IF ip.n = 0 /\ fp.n = 0 THEN 0
            ELSE IF CharAt(s, 1) = "-" THEN 0 - Mag(ip, fp) ELSE Mag(ip, fp)
        Fraction(ip) ==
            Value(ip, IF CharAt(s, ip.pos) = "."
                      THEN ScanDigits(s, ip.pos + 1, 0, 0, NumDigits)
                      ELSE [val |-> 0, n |-> 0, pos |-> ip.pos])
    IN  Fraction(ScanDigits(s, IF CharAt(s, 1) \in {"-", "+"} THEN 2 ELSE 1, 0, 0, 9))

RECURSIVE NatToStr(_)
NatToStr(n) ==
    IF n < 10 THEN Digits[n + 1]
    ELSE NatToStr(n \div 10) \o Digits[(n % 10) + 1]

RECURSIVE PadLeft(_, _)
PadLeft(s, n) == IF Len(s) >= n THEN s ELSE PadLeft("0" \o s, n)

RECURSIVE Zeros(_)
Zeros(n) == IF n <= 0 THEN "" ELSE "0" \o Zeros(n - 1)

\* snprintf(token, TOKEN_MAX_LEN, "%.*f", p, v): p fractional digits, the
\* dropped digits rounded to nearest, ties to even
FormatF(v, p) ==
    LET Text(m, kept) ==
            (IF v < 0 THEN "-" ELSE "")
            \o NatToStr(m \div Pow10(kept))
            \o (IF p = 0 THEN ""
                ELSE "." \o (IF kept = 0 THEN "" ELSE PadLeft(NatToStr(m % Pow10(kept)), kept))
                         \o Zeros(p - kept))
        Round(q, r, unit) ==
            IF 2 * r > unit \/ (2 * r = unit /\ q % 2 = 1) THEN q + 1 ELSE q
        Scaled(mag, unit) ==
            Text(Round(mag \div unit, mag % unit, unit),
                 IF p < NumDigits THEN p ELSE NumDigits)
    IN  Scaled(IF v < 0 THEN 0 - v ELSE v,
               IF p < NumDigits THEN Pow10(NumDigits - p) ELSE 1)

\* snprintf(token, TOKEN_MAX_LEN, "%.8f", result)
FormatF8(v) == FormatF(v, 8)

HexDigits == {"0", "1", "2", "3", "4", "5", "6", "7", "8", "9",
              "a", "b", "c", "d", "e", "f", "A", "B", "C", "D", "E", "F"}

\* ccolor_from_str(token, &err): err is set unless the token is # and hex digits
ccolor_from_str_err(token) ==
    ~ (/\ Len(token) \in {4, 7, 9}
       /\ \A p \in 2..Len(token) : CharAt(token, p) \in HexDigits)

\* snprintf(token, TOKEN_MAX_LEN, "%s", s): at most TOKEN_MAX_LEN - 1 characters
Truncate(s) == IF Len(s) > TOKEN_MAX_LEN - 1 THEN SubSeq(s, 1, TOKEN_MAX_LEN - 1) ELSE s

(***************************************************************************)
(* context.c: the lexer                                                    *)
(***************************************************************************)
Separators == {" ", "(", ")", "\t"}

Res(ctx, type, token, num) == [ctx |-> ctx, type |-> type, token |-> token, num |-> num]

\* update_state for which the end of the buffer is no end of line
update_state_eof_only(ctx, c) ==
    IF c = NUL THEN [ctx EXCEPT !.eof_reached = TRUE]
    ELSE IF c = "\n" THEN [ctx EXCEPT !.eol_reached = TRUE]
    ELSE ctx

update_state(ctx, c) ==
    IF c = NUL THEN [ctx EXCEPT !.eof_reached = TRUE, !.eol_reached = TRUE]
    ELSE IF c = "\n" THEN [ctx EXCEPT !.eol_reached = TRUE]
    ELSE ctx

\* position of the buffer pointer after read_char returned the character at p
AfterChar(buf, p) == IF CharAt(buf, p) = NUL THEN p ELSE p + 1

RECURSIVE SkipLead(_, _)
SkipLead(buf, p) ==
    IF CharAt(buf, p) \in Separators THEN SkipLead(buf, p + 1) ELSE p

char_add(tok, c) == IF Len(tok) < TOKEN_MAX_LEN - 1 THEN tok \o c ELSE tok

\* the characters with a case of their own in the word loop of read_word
Stops == Separators \cup {"\n", "'", "\"", NUL}

\* the position of the first of them from p on; the end of the buffer is one
NextStop(buf, p) ==
    LET Found(S) == CHOOSE e \in S : \A j \in S : e <= j
    IN  Found({j \in p..(Len(buf) + 1) : CharAt(buf, j) \in Stops})

\* char_add without the test of the room left in the token
chars_add_all(tok, s) == tok \o s

\* char_add for each character of s in turn
chars_add(tok, s) ==
    IF Len(tok) + Len(s) <= TOKEN_MAX_LEN - 1 THEN tok \o s
    ELSE tok \o SubSeq(s, 1, TOKEN_MAX_LEN - 1 - Len(tok))

RECURSIVE WordLoop_independent(_, _, _, _, _)
RECURSIVE WordLoop(_, _, _, _, _)

\* a word loop in which each quote toggles its own state whatever the state
\* of the other, and no quote is added to the token
WordLoop_independent(buf, p, tok, q1, q2) ==
    LET Switch(c) ==
            IF c = NUL THEN [pos |-> p, c |-> c, token |-> tok]
            ELSE IF c \in Separators \cup {"\n"} /\ ~(q1 \/ q2)
            THEN [pos |-> p + 1, c |-> c, token |-> tok]
            ELSE WordLoop_independent(buf, p + 1,
                          IF c \in {"'", "\""} THEN tok ELSE char_add(tok, c),
                          IF c = "'" THEN ~q1 ELSE q1,
                          IF c = "\"" THEN ~q2 ELSE q2)
        Default(e) ==
            WordLoop_independent(buf, e, chars_add(tok, SubSeq(buf, p, e - 1)), q1, q2)
    IN  IF CharAt(buf, p) \notin Stops THEN Default(NextStop(buf, p))
        ELSE Switch(CharAt(buf, p))

\* the word loop of read_word: p is the position of the character c in hand;
\* the characters of the default case are taken up to the next other case
WordLoop(buf, p, tok, q1, q2) ==
    LET Switch(c) ==
            IF c = NUL THEN [pos |-> p, c |-> c, token |-> tok]
            ELSE IF c \in Separators \cup {"\n"} /\ ~(q1 \/ q2)
            THEN [pos |-> p + 1, c |-> c, token |-> tok]
            ELSE WordLoop(buf, p + 1,
                          IF (c = "'" /\ ~q2) \/ (c = "\"" /\ ~q1) THEN tok ELSE char_add(tok, c),
                          IF c = "'" /\ ~q2 THEN ~q1 ELSE q1,
                          IF c = "\"" /\ ~q1 THEN ~q2 ELSE q2)
        Default(e) == WordLoop(buf, e, chars_add(tok, SubSeq(buf, p, e - 1)), q1, q2)
    IN  IF CharAt(buf, p) \notin Stops THEN Default(NextStop(buf, p))
        ELSE Switch(CharAt(buf, p))

\* read_word: [ctx, ok, token]
read_word(ctx) ==
    LET Word(w) ==
            [ctx |-> update_state([ctx EXCEPT !.pos = w.pos], w.c),
             ok |-> Len(w.token) > 0,
             token |-> w.token]
    IN  IF ctx.eol_reached THEN [ctx |-> ctx, ok |-> FALSE, token |-> ""]
        ELSE Word(WordLoop(ctx.buffer, SkipLead(ctx.buffer, ctx.pos), "", FALSE, FALSE))

RECURSIVE EolPos(_, _)
EolPos(buf, p) ==
    IF CharAt(buf, p) = NUL THEN p
    ELSE IF CharAt(buf, p) = "\n" THEN p + 1
    ELSE EolPos(buf, p + 1)

\* context_goto_eol without lines 119-120: the replay positions stay
context_goto_eol_keep(ctx) ==
    LET Drain(e) ==
            update_state([ctx EXCEPT !.pos = e],
                         IF e > ctx.pos /\ CharAt(ctx.buffer, e - 1) = "\n" THEN "\n" ELSE NUL)
    IN  IF ctx.eol_reached THEN ctx ELSE Drain(EolPos(ctx.buffer, ctx.pos))

context_goto_eol(ctx) ==
    LET Drain(e) ==
            update_state([ctx EXCEPT !.pos = e, !.var_i = SIZE_MAX, !.it_i = SIZE_MAX],
                         IF e > ctx.pos /\ CharAt(ctx.buffer, e - 1) = "\n" THEN "\n" ELSE NUL)
    IN  IF ctx.eol_reached THEN [ctx EXCEPT !.var_i = SIZE_MAX, !.it_i = SIZE_MAX]
        ELSE Drain(EolPos(ctx.buffer, ctx.pos))

context_get_token_raw(ctx) ==
    LET Word(w) == Res(w.ctx, IF w.ok THEN TOKEN_STRING ELSE TOKEN_INVALID, w.token, 0)
    IN  IF ctx.var_i < cbook_group_length(ctx.vars, ctx.var_group)
        THEN Res([ctx EXCEPT !.var_i = @ + 1], TOKEN_STRING,
                 Truncate(cbook_word_in_group(ctx.vars, ctx.var_group, ctx.var_i)), 0)
        ELSE IF ctx.it_i < cbook_group_length(ctx.iteration, ctx.it_group)
        THEN Res([ctx EXCEPT !.it_i = @ + 1], TOKEN_STRING,
                 Truncate(cbook_word_in_group(ctx.iteration, ctx.it_group, ctx.it_i)), 0)
        ELSE Word(read_word(ctx))

(***************************************************************************)
(* substitution.c: the recursive expander, and context.c's token readers   *)
(* that call it.  want stands for math_result != NULL.                     *)
(***************************************************************************)
RECURSIVE context_get_token(_, _)
RECURSIVE context_get_token_numeral(_)

_comment(ctx, token) == Res(ctx, TOKEN_INVALID, token, 0)

_eof(ctx, token) ==
    Res([ctx EXCEPT !.eof_reached = TRUE, !.eol_reached = TRUE], TOKEN_INVALID, token, 0)

\* an escape that hands the next token to the expander
_escape_substituted(ctx, token) ==
    context_get_token([ctx EXCEPT !.eol_reached = FALSE], FALSE)

_escape(ctx, token) ==
    context_get_token_raw([ctx EXCEPT !.eol_reached = FALSE])

_filler(ctx, token, want) == context_get_token(ctx, want)

IfResult(type, a, b) ==
    CASE type = "IF_LESS" -> a < b
      [] type = "IF_LESS_EQ" -> a <= b
      [] type = "IF_MORE" -> a > b
      [] type = "IF_MORE_EQ" -> a >= b
      [] type = "IF_EQ" -> a = b
      [] type = "IF_EQ_NOT" -> a /= b

_if(ctx, token, want, type) ==
    LET Pick(ra, rb, r1) ==
            IF IfResult(type, ra.num, rb.num)
            THEN [r1 EXCEPT !.ctx = context_get_token(r1.ctx, FALSE).ctx]
            ELSE context_get_token(r1.ctx, want)
        Second(ra, rb) ==
            IF rb.type = TOKEN_INVALID THEN [rb EXCEPT !.num = 0]
            ELSE Pick(ra, rb, context_get_token(rb.ctx, want))
        First(ra) ==
            IF ra.type = TOKEN_INVALID THEN [ra EXCEPT !.num = 0]
            ELSE Second(ra, context_get_token_numeral(ra.ctx))
    IN  First(context_get_token_numeral(ctx))

_join(ctx, token) ==
    LET Second(r1, r2) ==
            IF r2.type = TOKEN_INVALID THEN Res(r2.ctx, TOKEN_INVALID, r1.token, 0)
            ELSE Res(r2.ctx, TOKEN_STRING, Truncate(r1.token \o r2.token), 0)
        First(r1) ==
            IF r1.type = TOKEN_INVALID THEN [r1 EXCEPT !.num = 0]
            ELSE Second(r1, context_get_token(r1.ctx, FALSE))
    IN  First(context_get_token(ctx, FALSE))

RECURSIVE MathArgs_lenient(_, _, _, _)
RECURSIVE MathArgs(_, _, _, _)

\* an argument loop that takes 0 for an operand it cannot read
MathArgs_lenient(ctx, token, n, d) ==
    LET Arg(r) ==
            MathArgs_lenient(r.ctx, r.token, n,
                             Append(d, IF r.type = TOKEN_INVALID THEN 0 ELSE r.num))
    IN  IF Len(d) >= n THEN [ctx |-> ctx, ok |-> TRUE, d |-> d, token |-> token]
        ELSE Arg(context_get_token_numeral(ctx))

\* the argument loop of _math: [ctx, ok, d, token]
MathArgs(ctx, token, n, d) ==
    LET Arg(r) ==
            IF r.type = TOKEN_INVALID
            THEN [ctx |-> r.ctx, ok |-> FALSE, d |-> d, token |-> r.token]
            ELSE MathArgs(r.ctx, r.token, n, Append(d, r.num))
    IN  IF Len(d) >= n THEN [ctx |-> ctx, ok |-> TRUE, d |-> d, token |-> token]
        ELSE Arg(context_get_token_numeral(ctx))

MathResult(type, d) ==
    CASE type = "CONST_TRUE" -> NumScale
      [] type = "CONST_FALSE" -> 0
      [] type = "OP_ABS" -> IF d[1] < 0 THEN 0 - d[1] ELSE d[1]
      [] type = "OP_ADD" -> d[1] + d[2]
      [] type = "OP_SUBSTRACT" -> d[1] - d[2]
      [] type = "OP_MULTIPLY" -> (d[1] * d[2]) \div NumScale
      [] type = "OP_BIGGEST" -> IF d[1] > d[2] THEN d[1] ELSE d[2]
      [] type = "OP_SMALLEST" -> IF d[1] < d[2] THEN d[1] ELSE d[2]

_math(ctx, token, want, type, n) ==
    LET Result(a) ==
            IF ~a.ok THEN Res(a.ctx, TOKEN_INVALID, a.token, 0)
            ELSE IF want THEN Res(a.ctx, TOKEN_NUMBER, a.token, MathResult(type, a.d))
            ELSE Res(a.ctx, TOKEN_NUMBER, FormatF8(MathResult(type, a.d)), 0)
    IN  Result(MathArgs(ctx, token, n, <<>>))

\* _variable without the reset of the variable book's iterator: the group is
\* selected but the index stays where it was
_variable_no_reset(ctx, token, want) ==
    LET Inject(r) ==
            IF r.type = TOKEN_INVALID
               \/ ~cdict_find(r.ctx.keys_vars, r.token, CONTEXT_DICT_VARIABLE)
            THEN [r EXCEPT !.type = TOKEN_INVALID, !.num = 0]
            ELSE context_get_token(
                     [r.ctx EXCEPT !.var_group = cdict_value(r.ctx.keys_vars, r.token,
                                                             CONTEXT_DICT_VARIABLE)],
                     want)
    IN  Inject(context_get_token(ctx, FALSE))

_variable(ctx, token, want) ==
    LET Inject(r) ==
            IF r.type = TOKEN_INVALID
               \/ ~cdict_find(r.ctx.keys_vars, r.token, CONTEXT_DICT_VARIABLE)
            THEN [r EXCEPT !.type = TOKEN_INVALID, !.num = 0]
            ELSE context_get_token(
                     [r.ctx EXCEPT !.var_group = cdict_value(r.ctx.keys_vars, r.token,
                                                             CONTEXT_DICT_VARIABLE),
                                   !.var_i = 0],
                     want)
    IN  Inject(context_get_token(ctx, FALSE))

MathArity(type) ==
    CASE type \in {"CONST_TRUE", "CONST_FALSE"} -> 0
      [] type \in {"OP_ABS"} -> 1
      [] type \in {"OP_ADD", "OP_SUBSTRACT", "OP_MULTIPLY", "OP_BIGGEST", "OP_SMALLEST"} -> 2

IfTypes == {"IF_LESS", "IF_LESS_EQ", "IF_MORE", "IF_MORE_EQ", "IF_EQ", "IF_EQ_NOT"}

MathTypes ==
    {"CONST_TRUE", "CONST_FALSE", "OP_ABS", "OP_ADD", "OP_SUBSTRACT", "OP_MULTIPLY",
     "OP_BIGGEST", "OP_SMALLEST"}

\* the guard of substitution_apply and of sequence_parse
DepthExceeded_late(ctx) == ctx.depth > CONTEXT_MAX_DEPTH

DepthExceeded(ctx) == ctx.depth >= CONTEXT_MAX_DEPTH

\* ctx->depth++; peak records the largest depth the context has had
Deeper(ctx) ==
    [ctx EXCEPT !.depth = @ + 1,
                !.peak = IF ctx.depth + 1 > @ THEN ctx.depth + 1 ELSE @]

\* depth guard, ctx->depth++, the switch on token_match(token), ctx->depth--
substitution_apply(ctx, token, want) ==
    LET Switch(c, type) ==
            CASE type = "COMMENT" -> _comment(c, token)
              [] type = "EOF" -> _eof(c, token)
              [] type = "ESCAPE" -> _escape(c, token)
              [] type = "FILLER" -> _filler(c, token, want)
              [] type = "JOIN" -> _join(c, token)
              [] type = "VAR_INJECTION" -> _variable(c, token, want)
              [] type \in IfTypes -> _if(c, token, want, type)
              [] type \in MathTypes -> _math(c, token, want, type, MathArity(type))
              [] OTHER -> Res(c, type, token, 0)
    IN  IF DepthExceeded(ctx) THEN Res(ctx, TOKEN_INVALID, token, 0)
        ELSE [Switch(Deeper(ctx), token_match(token)) EXCEPT !.ctx.depth = @ - 1]

context_get_token(ctx, want) ==
    LET Substitute(r) ==
            IF r.type = TOKEN_INVALID THEN [r EXCEPT !.num = 0]
            ELSE substitution_apply(r.ctx, r.token, want)
    IN  Substitute(context_get_token_raw(ctx))

context_get_token_numeral(ctx) ==
    LET Numeral(r) ==
            IF r.type = TOKEN_NUMBER THEN r
            ELSE IF r.type = TOKEN_STRING /\ CharAt(r.token, 1) = "#"
            THEN Res(r.ctx, IF ccolor_from_str_err(r.token) THEN TOKEN_INVALID ELSE TOKEN_NUMBER,
                     r.token, 0)
            ELSE IF r.type = TOKEN_STRING
            THEN Res(r.ctx, TOKEN_NUMBER, r.token, strtod(r.token))
            ELSE Res(r.ctx, TOKEN_INVALID, r.token, 0)
    IN  Numeral(context_get_token(ctx, TRUE))

(***************************************************************************)
(* State                                                                   *)
(***************************************************************************)
VARIABLES
    scenario,   \* what the embedding program loads (fixed by Init)
    cfg,        \* the config object: restricted flag, fetch cursor, phase
    ctx,        \* struct context, with the books and dictionaries it points to
    stack,      \* call stack of the sequence layer, innermost frame last
    log         \* history: the declarations made and the lines dispatched

vars == <<scenario, cfg, ctx, stack, log>>

Frame(pc) ==
    [pc |-> pc, type |-> "", token |-> "", name |-> "", n |-> 0,
     i |-> 0, k |-> 0, group_start |-> 0, group_end |-> 0, nested |-> FALSE,
     entry_depth |-> 0, entry_restricted |-> FALSE, saved |-> <<>>]

Top == stack[Len(stack)]

SetTop(f) == [stack EXCEPT ![Len(stack)] = f]

Pop == SubSeq(stack, 1, Len(stack) - 1)

At(pc) == cfg.phase = "parsing" /\ stack /= <<>> /\ Top.pc = pc

Count(n) == IF n < MaxCount THEN n + 1 ELSE n

\* the frame of a handler that has returned to sequence_parse
Return(f) == [f EXCEPT !.pc = "goto_eol"]

(***************************************************************************)
(* sequence.c: the dispatcher                                              *)
(***************************************************************************)
HandlerOf(type) ==
    CASE type \in {"VAR_APPEND", "VAR_PREPEND", "VAR_MERGE"} -> "combine_var"
      [] type = "VAR_DECLARATION" -> "declare_variable"
      [] type = "ENUM_DECLARATION" -> "declare_enum"
      [] type = "SECTION_BEGIN" -> "section_begin"
      [] type = "SECTION_ADD" -> "section_add"
      [] type = "SECTION_DEL" -> "section_del"
      [] type = "INCLUDE" -> "include"
      [] type = "FOR_BEGIN" -> "iterate"
      [] type = "SEED" -> "seed"
      [] type = "PRINT" -> "print"
      [] type = "RESTRICT" -> "restrict_mode"
      [] type = TOKEN_INVALID -> "goto_eol"
      [] OTHER -> "declare_resource"

\* a gate that lets RESTRICT and the declarations of variables through
SectionGate_leaky(type, skip_sequences) ==
    IF type \notin {"SECTION_BEGIN", "RESTRICT", "VAR_DECLARATION"} /\ skip_sequences
    THEN TOKEN_INVALID ELSE type

\* SectionGate without the gate: every leader is honoured in every section
SectionGate_open(type, skip_sequences) == type

\* lines 72-75: in an inactive section only SECTION_BEGIN is honoured
SectionGate(type, skip_sequences) ==
    IF type /= "SECTION_BEGIN" /\ skip_sequences THEN TOKEN_INVALID ELSE type

\* sequence_parse, up to the switch: depth guard, leader token, section gate
sequence_parse ==
    LET Switch(r, type) ==
            /\ ctx' = r.ctx
            /\ stack' = SetTop([Top EXCEPT !.pc = HandlerOf(type), !.type = type,
                                           !.token = r.token,
                                           !.entry_depth = ctx.depth,
                                           !.entry_restricted = ctx.restricted])
            /\ log' = [log EXCEPT !.lines = Append(@, [type |-> type, token |-> r.token])]
        Leader(r) == Switch(r, SectionGate(r.type, r.ctx.skip_sequences))
    IN  /\ At("sequence_parse")
        /\ IF DepthExceeded(ctx)
           THEN /\ stack' = Pop
                /\ UNCHANGED <<ctx, log>>
           ELSE Leader(context_get_token(Deeper(ctx), FALSE))
        /\ UNCHANGED <<scenario, cfg>>

\* sequence_parse, after the switch: context_goto_eol, depth--, return
sequence_parse_end ==
    /\ At("goto_eol")
    /\ ctx' = [context_goto_eol(ctx) EXCEPT !.depth = @ - 1]
    /\ stack' = Pop
    /\ UNCHANGED <<scenario, cfg, log>>

(***************************************************************************)
(* sequence.c: declare_resource                                            *)
(***************************************************************************)
\* lines 284-301: the property name, then cbook_prepare_new_group
declare_resource ==
    LET Name(r) ==
            IF r.type = TOKEN_INVALID
            THEN /\ ctx' = r.ctx
                 /\ stack' = SetTop(Return(Top))
            ELSE /\ ctx' = [r.ctx EXCEPT !.sequences = cbook_prepare_new_group(@)]
                 /\ stack' = SetTop([Top EXCEPT !.pc = "declare_resource_values",
                                                !.name = r.token, !.n = 0])
    IN  /\ At("declare_resource")
        /\ Name(context_get_token(ctx, FALSE))
        /\ UNCHANGED <<scenario, cfg, log>>

\* WriteResource with the reference one group too far: what declare_resource
\* would store if it took the group index before the values were written
WriteResource_next_group(c, namespace, name) ==
    LET Write(keys, i) ==
            [c EXCEPT !.keys_sequences =
                cdict_write(keys, name, i, cbook_groups_number(c.sequences))]
    IN  IF cdict_find(c.keys_sequences, namespace, 0)
        THEN Write(c.keys_sequences, cdict_value(c.keys_sequences, namespace, 0))
        ELSE Write(cdict_write(c.keys_sequences, namespace, 0,
                               cbook_groups_number(c.sequences)),
                   cbook_groups_number(c.sequences))

\* WriteResource that keeps the reference of a property already declared
WriteResource_first_wins(c, namespace, name) ==
    LET Write(keys, i) ==
            IF cdict_find(keys, name, i) THEN c
            ELSE [c EXCEPT !.keys_sequences =
                     cdict_write(keys, name, i, cbook_groups_number(c.sequences) - 1)]
    IN  IF cdict_find(c.keys_sequences, namespace, 0)
        THEN Write(c.keys_sequences, cdict_value(c.keys_sequences, namespace, 0))
        ELSE Write(cdict_write(c.keys_sequences, namespace, 0,
                               cbook_groups_number(c.sequences)),
                   cbook_groups_number(c.sequences))

\* WriteResource that takes the index of the property's group as the id of
\* a new namespace
WriteResource_group_id(c, namespace, name) ==
    LET Write(keys, i) ==
            [c EXCEPT !.keys_sequences =
                cdict_write(keys, name, i, cbook_groups_number(c.sequences) - 1)]
    IN  IF cdict_find(c.keys_sequences, namespace, 0)
        THEN Write(c.keys_sequences, cdict_value(c.keys_sequences, namespace, 0))
        ELSE Write(cdict_write(c.keys_sequences, namespace, 0,
                               cbook_groups_number(c.sequences) - 1),
                   cbook_groups_number(c.sequences) - 1)

\* lines 314-325: the namespace id and the property's group in keys_sequences
WriteResource(c, namespace, name) ==
    LET Write(keys, i) ==
            [c EXCEPT !.keys_sequences =
                cdict_write(keys, name, i, cbook_groups_number(c.sequences) - 1)]
    IN  IF cdict_find(c.keys_sequences, namespace, 0)
        THEN Write(c.keys_sequences, cdict_value(c.keys_sequences, namespace, 0))
        ELSE Write(cdict_write(c.keys_sequences, namespace, 0,
                               cbook_groups_number(c.sequences)),
                   cbook_groups_number(c.sequences))

\* lines 302-325: one turn of the value loop, or what follows the loop
declare_resource_values ==
    LET Value(r) ==
            IF r.type /= TOKEN_INVALID
            THEN /\ ctx' = [r.ctx EXCEPT !.sequences = cbook_write(@, r.token)]
                 /\ stack' = SetTop([Top EXCEPT !.n = Count(@)])
                 /\ log' = log
            ELSE IF Top.n = 0
            THEN /\ ctx' = [r.ctx EXCEPT !.sequences = cbook_undo_new_group(@)]
                 /\ stack' = SetTop(Return(Top))
                 /\ log' = log
            ELSE /\ ctx' = WriteResource(r.ctx, Top.token, Top.name)
                 /\ stack' = SetTop(Return(Top))
                 /\ log' = [log EXCEPT !.decls = Append(@, <<Top.token, Top.name>>)]
    IN  /\ At("declare_resource_values")
        /\ Value(context_get_token(ctx, FALSE))
        /\ UNCHANGED <<scenario, cfg>>

(***************************************************************************)
(* sequence.c: declare_variable                                            *)
(***************************************************************************)
declare_variable ==
    LET Name(r) ==
            IF r.type = TOKEN_INVALID
            THEN /\ ctx' = r.ctx
                 /\ stack' = SetTop(Return(Top))
            ELSE /\ ctx' = [r.ctx EXCEPT !.vars = cbook_prepare_new_group(@)]
                 /\ stack' = SetTop([Top EXCEPT !.pc = "declare_variable_values",
                                                !.name = r.token, !.n = 0])
    IN  /\ At("declare_variable")
        /\ IF ctx.restricted
           THEN /\ ctx' = ctx
                /\ stack' = SetTop(Return(Top))
           ELSE Name(context_get_token(ctx, FALSE))
        /\ UNCHANGED <<scenario, cfg, log>>

\* the reference written by declare_variable, combine_var and declare_enum
WriteVariable(c, name) ==
    [c EXCEPT !.keys_vars =
        cdict_write(@, name, CONTEXT_DICT_VARIABLE, cbook_groups_number(c.vars) - 1)]

declare_variable_values ==
    LET Value(r) ==
            IF r.type /= TOKEN_INVALID
            THEN /\ ctx' = [r.ctx EXCEPT !.vars = cbook_write(@, r.token)]
                 /\ stack' = SetTop([Top EXCEPT !.n = Count(@)])
            ELSE IF Top.n = 0
            THEN /\ ctx' = [r.ctx EXCEPT !.vars = cbook_undo_new_group(@)]
                 /\ stack' = SetTop(Return(Top))
            ELSE /\ ctx' = WriteVariable(r.ctx, Top.name)
                 /\ stack' = SetTop(Return(Top))
    IN  /\ At("declare_variable_values")
        /\ Value(context_get_token(ctx, FALSE))
        /\ UNCHANGED <<scenario, cfg, log>>

(***************************************************************************)
(* sequence.c: combine_var                                                 *)
(***************************************************************************)
\* a combination that puts the operand on the other side of the value
CombineValue_swapped(type, word, token_2, word_j) ==
    CASE type = "VAR_APPEND" -> token_2 \o word
      [] type = "VAR_PREPEND" -> word \o token_2
      [] type = "VAR_MERGE" -> word_j \o word
      [] OTHER -> word

CombineValue(type, word, token_2, word_j) ==
    CASE type = "VAR_APPEND" -> word \o token_2
      [] type = "VAR_PREPEND" -> token_2 \o word
      [] type = "VAR_MERGE" -> word \o word_j
      [] OTHER -> word

\* lines 174-198: the new group, one value for each value of group i
RECURSIVE CombineWrite(_, _, _, _, _, _)
CombineWrite(book, type, i, j, token_2, k) ==
    IF k >= cbook_group_length(book, i) THEN book
    ELSE CombineWrite(
             cbook_write(book, CombineValue(type, cbook_word_in_group(book, i, k), token_2,
                                            cbook_word_in_group(book, j, k))),
             type, i, j, token_2, k + 1)

CombineVar(c, type) ==
    LET Generate(c2, name, token_2, i, j) ==
            WriteVariable(
                [c2 EXCEPT !.vars =
                    CombineWrite(cbook_prepare_new_group(@), type, i, j, token_2, 0)],
                name)
        Params(r0, r1, r2) ==
            IF r2.type = TOKEN_INVALID
               \/ ~cdict_find(r2.ctx.keys_vars, r1.token, CONTEXT_DICT_VARIABLE)
               \/ (type = "VAR_MERGE"
                   /\ ~cdict_find(r2.ctx.keys_vars, r2.token, CONTEXT_DICT_VARIABLE))
            THEN r2.ctx
            ELSE Generate(r2.ctx, r0.token, r2.token,
                          cdict_value(r2.ctx.keys_vars, r1.token, CONTEXT_DICT_VARIABLE),
                          IF type = "VAR_MERGE"
                          THEN cdict_value(r2.ctx.keys_vars, r2.token, CONTEXT_DICT_VARIABLE)
                          ELSE 0)
        Second(r0, r1) ==
            IF r1.type = TOKEN_INVALID THEN r1.ctx
            ELSE Params(r0, r1, context_get_token(r1.ctx, FALSE))
        First(r0) ==
            IF r0.type = TOKEN_INVALID THEN r0.ctx
            ELSE Second(r0, context_get_token(r0.ctx, FALSE))
    IN  First(context_get_token(c, FALSE))

combine_var ==
    /\ At("combine_var")
    /\ ctx' = IF ctx.restricted THEN ctx ELSE CombineVar(ctx, Top.type)
    /\ stack' = SetTop(Return(Top))
    /\ UNCHANGED <<scenario, cfg, log>>

(***************************************************************************)
(* sequence.c: declare_enum                                                *)
(***************************************************************************)
\* util_interpolate(min, max, i / steps), i an integer and steps a double
\* (the quotient (max - min) * i * NumScale / steps, taken in two parts to stay
\* within the integers of the checker)
EnumValue_no_min(min, max, steps, i) ==
    ((max * i) \div steps) * NumScale + (((max * i) % steps) * NumScale) \div steps

EnumValue(min, max, steps, i) ==
    min + (((max - min) * i) \div steps) * NumScale
        + ((((max - min) * i) % steps) * NumScale) \div steps

\* lines 269-275: one formatted value for each i with i <= steps
RECURSIVE EnumWrite(_, _, _, _, _, _)
EnumWrite(book, min, max, steps, precision, i) ==
    IF i * NumScale > steps THEN book
    ELSE EnumWrite(cbook_write(book, FormatF(EnumValue(min, max, steps, i), precision)),
                   min, max, steps, precision, i + 1)

DeclareEnum(c) ==
    LET Got(r) == IF r.type /= TOKEN_INVALID THEN 1 ELSE 0
        Generate(c5, name, min, max, steps, precision) ==
            IF steps < NumScale \/ precision < 0 THEN c5
            ELSE WriteVariable(
                     [c5 EXCEPT !.vars =
                         EnumWrite(cbook_prepare_new_group(@), min, max, steps,
                                   IF precision > 16 * NumScale THEN 16
                                   ELSE precision \div NumScale,
                                   0)],
                     name)
        Defaults(c5, name, n, min, max, steps, precision) ==
            Generate(c5, name, min, max,
                     IF n <= 3 THEN max - min ELSE steps,
                     IF n <= 4 THEN 0 ELSE precision)
        Params(n, r0, r1, r2, r3, r4) ==
            IF n <= 1 THEN r4.ctx
            ELSE Defaults(r4.ctx, r0.token, n,
                          IF n = 2 THEN 0 ELSE r1.num,
                          IF n = 2 THEN r1.num ELSE r2.num,
                          r3.num, r4.num)
        Fifth(r0, r1, r2, r3, r4) ==
            Params(Got(r0) + Got(r1) + Got(r2) + Got(r3) + Got(r4), r0, r1, r2, r3, r4)
        Fourth(r0, r1, r2, r3) == Fifth(r0, r1, r2, r3, context_get_token_numeral(r3.ctx))
        Third(r0, r1, r2) == Fourth(r0, r1, r2, context_get_token_numeral(r2.ctx))
        Second(r0, r1) == Third(r0, r1, context_get_token_numeral(r1.ctx))
        First(r0) == Second(r0, context_get_token_numeral(r0.ctx))
    IN  First(context_get_token(c, FALSE))

declare_enum ==
    /\ At("declare_enum")
    /\ ctx' = IF ctx.restricted THEN ctx ELSE DeclareEnum(ctx)
    /\ stack' = SetTop(Return(Top))
    /\ UNCHANGED <<scenario, cfg, log>>

(***************************************************************************)
(* sequence.c: restrict_mode, seed, print                                  *)
(***************************************************************************)
\* restrict_mode as a toggle
restrict_mode_toggle ==
    /\ At("restrict_mode")
    /\ ctx' = [ctx EXCEPT !.restricted = ~@]
    /\ stack' = SetTop(Return(Top))
    /\ UNCHANGED <<scenario, cfg, log>>

restrict_mode ==
    /\ At("restrict_mode")
    /\ ctx' = [ctx EXCEPT !.restricted = TRUE]
    /\ stack' = SetTop(Return(Top))
    /\ UNCHANGED <<scenario, cfg, log>>

Seed(c) ==
    LET Value(r) == IF r.type /= TOKEN_INVALID THEN [r.ctx EXCEPT !.rand = r.num] ELSE r.ctx
    IN  Value(context_get_token_numeral(c))

seed ==
    /\ At("seed")
    /\ ctx' = IF ctx.restricted THEN ctx ELSE Seed(ctx)
    /\ stack' = SetTop(Return(Top))
    /\ UNCHANGED <<scenario, cfg, log>>

\* EnterLoop without the test of ctx->restricted
EnterLoop_unrestricted(loop) == SetTop([Top EXCEPT !.pc = loop])

\* restricted: return; otherwise enter the token loop of the handler
EnterLoop(loop) ==
    SetTop(IF ctx.restricted THEN Return(Top) ELSE [Top EXCEPT !.pc = loop])

print ==
    /\ At("print")
    /\ stack' = EnterLoop("print_tokens")
    /\ UNCHANGED <<scenario, cfg, ctx, log>>

print_tokens ==
    LET Token(r) ==
            /\ ctx' = r.ctx
            /\ stack' = IF r.type /= TOKEN_INVALID THEN stack ELSE SetTop(Return(Top))
    IN  /\ At("print_tokens")
        /\ Token(context_get_token(ctx, FALSE))
        /\ UNCHANGED <<scenario, cfg, log>>

(***************************************************************************)
(* sequence.c: section_add, section_begin, section_del                     *)
(***************************************************************************)
section_add ==
    /\ At("section_add")
    /\ stack' = EnterLoop("section_add_tokens")
    /\ UNCHANGED <<scenario, cfg, ctx, log>>

section_add_tokens ==
    LET Token(r) ==
            IF r.type /= TOKEN_INVALID
            THEN /\ ctx' = [r.ctx EXCEPT !.keys_vars =
                               cdict_write(@, r.token, CONTEXT_DICT_SECTION, 0)]
                 /\ stack' = stack
            ELSE /\ ctx' = r.ctx
                 /\ stack' = SetTop(Return(Top))
    IN  /\ At("section_add_tokens")
        /\ Token(context_get_token(ctx, FALSE))
        /\ UNCHANGED <<scenario, cfg, log>>

\* section_begin without the test of ctx->restricted
section_begin_unrestricted ==
    /\ At("section_begin")
    /\ stack' = EnterLoop_unrestricted("section_begin_tokens")
    /\ UNCHANGED <<scenario, cfg, ctx, log>>

section_begin ==
    /\ At("section_begin")
    /\ stack' = EnterLoop("section_begin_tokens")
    /\ UNCHANGED <<scenario, cfg, ctx, log>>

section_begin_tokens ==
    LET Token(r) ==
            IF r.type /= TOKEN_INVALID
            THEN IF ~cdict_find(r.ctx.keys_vars, r.token, CONTEXT_DICT_SECTION)
                 THEN /\ ctx' = [r.ctx EXCEPT !.skip_sequences = TRUE]
                      /\ stack' = SetTop(Return(Top))
                 ELSE /\ ctx' = r.ctx
                      /\ stack' = stack
            ELSE /\ ctx' = [r.ctx EXCEPT !.skip_sequences = FALSE]
                 /\ stack' = SetTop(Return(Top))
    IN  /\ At("section_begin_tokens")
        /\ Token(context_get_token(ctx, FALSE))
        /\ UNCHANGED <<scenario, cfg, log>>

section_del ==
    /\ At("section_del")
    /\ stack' = EnterLoop("section_del_tokens")
    /\ UNCHANGED <<scenario, cfg, ctx, log>>

section_del_tokens ==
    LET Token(r) ==
            IF r.type /= TOKEN_INVALID
            THEN /\ ctx' = [r.ctx EXCEPT !.keys_vars =
                               cdict_erase(@, r.token, CONTEXT_DICT_SECTION)]
                 /\ stack' = stack
            ELSE /\ ctx' = r.ctx
                 /\ stack' = SetTop(Return(Top))
    IN  /\ At("section_del_tokens")
        /\ Token(context_get_token(ctx, FALSE))
        /\ UNCHANGED <<scenario, cfg, log>>

(***************************************************************************)
(* sequence.c: iterate and its preprocessing                               *)
(***************************************************************************)
\* lines 575-578: the rest of a body line, written raw into the iteration book
RECURSIVE CaptureLine(_)
CaptureLine(c) ==
    LET Token(r) ==
            IF r.type = TOKEN_INVALID THEN r.ctx
            ELSE CaptureLine([r.ctx EXCEPT !.iteration = cbook_write(@, r.token)])
    IN  Token(context_get_token_raw(c))

\* a label skip: that leaves the captured body in the iteration book
IterateSkip_keep(c, nested) == c

\* the label skip: of iterate
IterateSkip(c, nested) ==
    IF ~nested THEN [c EXCEPT !.iteration = cbook_clear(@)] ELSE c

\* iterate that tests the variable after the capture of the body: a FOR
\* over an unbound name captures its body and replays it zero times
iterate_capture_first ==
    LET Preprocess(c, i, name, nested) ==
            /\ ctx' = IF nested THEN c ELSE context_goto_eol(c)
            /\ stack' = SetTop([Top EXCEPT
                              !.pc = IF nested THEN "preproc_iter_nest"
                                     ELSE "preproc_iter_new",
                              !.name = name, !.i = i, !.k = 0, !.n = 0,
                              !.nested = nested,
                              !.group_start = IF nested THEN c.it_group + 1 ELSE 0,
                              !.group_end = IF nested THEN c.it_group + 1 ELSE 0])
        Named(c, i, name) ==
            IF cdict_find(c.keys_vars, name, CONTEXT_DICT_ITERATION)
            THEN /\ ctx' = c
                 /\ stack' = SetTop(Return(Top))
            ELSE Preprocess(c, i, name, cbook_length(c.iteration) /= 0)
        Alias(r1, r2) ==
            Named(r2.ctx, cdict_value(r1.ctx.keys_vars, r1.token, CONTEXT_DICT_VARIABLE),
                  IF r2.type = TOKEN_INVALID THEN Truncate(r1.token) ELSE r2.token)
        Variable(r1) ==
            IF r1.type = TOKEN_INVALID
            THEN /\ ctx' = r1.ctx
                 /\ stack' = SetTop(Return(Top))
            ELSE IF ~cdict_find(r1.ctx.keys_vars, r1.token, CONTEXT_DICT_VARIABLE)
            THEN Preprocess(r1.ctx, 0 - 1, r1.token, cbook_length(r1.ctx.iteration) /= 0)
            ELSE Alias(r1, context_get_token(r1.ctx, FALSE))
    IN  /\ At("iterate")
        /\ IF ctx.restricted
           THEN /\ ctx' = ctx
                /\ stack' = SetTop(Return(Top))
           ELSE Variable(context_get_token(ctx, FALSE))
        /\ UNCHANGED <<scenario, cfg, log>>

\* lines 408-464: parameters, nesting, preprocessing
iterate ==
    LET Preprocess(c, i, name, nested) ==
            /\ ctx' = IF nested THEN c ELSE context_goto_eol(c)
            /\ stack' = SetTop([Top EXCEPT
                              !.pc = IF nested THEN "preproc_iter_nest"
                                     ELSE "preproc_iter_new",
                              !.name = name, !.i = i, !.k = 0, !.n = 0,
                              !.nested = nested,
                              !.group_start = IF nested THEN c.it_group + 1 ELSE 0,
                              !.group_end = IF nested THEN c.it_group + 1 ELSE 0])
        Named(c, i, name) ==
            IF cdict_find(c.keys_vars, name, CONTEXT_DICT_ITERATION)
            THEN /\ ctx' = c
                 /\ stack' = SetTop(Return(Top))
            ELSE Preprocess(c, i, name, cbook_length(c.iteration) /= 0)
        Alias(r1, r2) ==
            Named(r2.ctx, cdict_value(r1.ctx.keys_vars, r1.token, CONTEXT_DICT_VARIABLE),
                  IF r2.type = TOKEN_INVALID THEN Truncate(r1.token) ELSE r2.token)
        Variable(r1) ==
            IF r1.type = TOKEN_INVALID
               \/ ~cdict_find(r1.ctx.keys_vars, r1.token, CONTEXT_DICT_VARIABLE)
            THEN /\ ctx' = r1.ctx
                 /\ stack' = SetTop(Return(Top))
            ELSE Alias(r1, context_get_token(r1.ctx, FALSE))
    IN  /\ At("iterate")
        /\ IF ctx.restricted
           THEN /\ ctx' = ctx
                /\ stack' = SetTop(Return(Top))
           ELSE Variable(context_get_token(ctx, FALSE))
        /\ UNCHANGED <<scenario, cfg, log>>

\* preproc_iter_new that takes the end of the source for the FOR_END of the
\* block
preproc_iter_new_lenient ==
    LET Capture(r) ==
            CaptureLine([r.ctx EXCEPT !.iteration =
                            cbook_write(cbook_prepare_new_group(@), r.token)])
        Line(r, type) ==
            CASE type = "FOR_BEGIN" ->
                   /\ ctx' = Capture(r)
                   /\ stack' = SetTop([Top EXCEPT !.n = @ + 1])
              [] type = "FOR_END" /\ Top.n = 0 ->
                   /\ ctx' = context_goto_eol(r.ctx)
                   /\ stack' = SetTop([Top EXCEPT
                                     !.pc = "iterate_values",
                                     !.group_end = cbook_groups_number(r.ctx.iteration)])
              [] type = "FOR_END" /\ Top.n > 0 ->
                   /\ ctx' = Capture(r)
                   /\ stack' = SetTop([Top EXCEPT !.n = @ - 1])
              [] type = TOKEN_INVALID ->
                   /\ ctx' = context_goto_eol(r.ctx)
                   /\ stack' = stack
              [] OTHER ->
                   /\ ctx' = Capture(r)
                   /\ stack' = stack
        Leader(r) == Line(r, token_match(r.token))
    IN  /\ At("preproc_iter_new")
        /\ IF ctx.eof_reached
           THEN /\ ctx' = ctx
                /\ stack' = SetTop([Top EXCEPT
                                  !.pc = "iterate_values",
                                  !.group_end = cbook_groups_number(ctx.iteration)])
           ELSE Leader(context_get_token_raw([ctx EXCEPT !.eol_reached = FALSE]))
        /\ UNCHANGED <<scenario, cfg, log>>

\* lines 533-582: one turn of the while loop of preproc_iter_new, which
\* captures a line of the body; Top.n is the count of FOR blocks open in it.
\* On FOR_END at n = 0 iterate goes on at line 466 with group_end the
\* number of captured groups; at the end of the source it fails (line 461)
preproc_iter_new ==
    LET Capture(r) ==
            CaptureLine([r.ctx EXCEPT !.iteration =
                            cbook_write(cbook_prepare_new_group(@), r.token)])
        Line(r, type) ==
            CASE type = "FOR_BEGIN" ->
                   /\ ctx' = Capture(r)
                   /\ stack' = SetTop([Top EXCEPT !.n = @ + 1])
              [] type = "FOR_END" /\ Top.n = 0 ->
                   /\ ctx' = context_goto_eol(r.ctx)
                   /\ stack' = SetTop([Top EXCEPT
                                     !.pc = "iterate_values",
                                     !.group_end = cbook_groups_number(r.ctx.iteration)])
              [] type = "FOR_END" /\ Top.n > 0 ->
                   /\ ctx' = Capture(r)
                   /\ stack' = SetTop([Top EXCEPT !.n = @ - 1])
              [] type = TOKEN_INVALID ->
                   /\ ctx' = context_goto_eol(r.ctx)
                   /\ stack' = stack
              [] OTHER ->
                   /\ ctx' = Capture(r)
                   /\ stack' = stack
        Leader(r) == Line(r, token_match(r.token))
    IN  /\ At("preproc_iter_new")
        /\ IF ctx.eof_reached
           THEN /\ ctx' = IterateSkip(ctx, FALSE)
                /\ stack' = SetTop(Return(Top))
           ELSE Leader(context_get_token_raw([ctx EXCEPT !.eol_reached = FALSE]))
        /\ UNCHANGED <<scenario, cfg, log>>

\* lines 492-529: one turn of the for loop of preproc_iter_nest over the
\* captured groups after the current one; Top.group_end is its index i
preproc_iter_nest ==
    LET Group(r, type) ==
            /\ ctx' = r.ctx
            /\ stack' = SetTop(
                   CASE type = "FOR_BEGIN" ->
                          [Top EXCEPT !.n = @ + 1, !.group_end = @ + 1]
                     [] type = "FOR_END" /\ Top.n = 0 ->
                          [Top EXCEPT !.pc = "iterate_values"]
                     [] type = "FOR_END" /\ Top.n > 0 ->
                          [Top EXCEPT !.n = @ - 1, !.group_end = @ + 1]
                     [] OTHER -> [Top EXCEPT !.group_end = @ + 1])
        Leader(r) == Group(r, token_match(r.token))
    IN  /\ At("preproc_iter_nest")
        /\ IF Top.group_end >= cbook_groups_number(ctx.iteration)
           THEN /\ ctx' = IterateSkip(ctx, TRUE)
                /\ stack' = SetTop(Return(Top))
           ELSE Leader(context_get_token_raw(
                           [ctx EXCEPT !.it_group = Top.group_end, !.it_i = 0]))
        /\ UNCHANGED <<scenario, cfg, log>>

\* a loop that replays the body for the first value only
iterate_values_once ==
    /\ At("iterate_values")
    /\ IF Top.k < 1
       THEN /\ ctx' = [ctx EXCEPT
                          !.keys_vars = cdict_write(@, Top.name, CONTEXT_DICT_ITERATION,
                                                    cbook_word_index(ctx.vars, Top.i, Top.k)),
                          !.it_group = Top.group_start]
            /\ stack' = SetTop([Top EXCEPT !.pc = "iterate_groups"])
       ELSE /\ ctx' = IterateSkip(
                          [ctx EXCEPT !.keys_vars =
                              cdict_erase(@, Top.name, CONTEXT_DICT_ITERATION)],
                          Top.nested)
            /\ stack' = SetTop(Return(Top))
    /\ UNCHANGED <<scenario, cfg, log>>

\* line 468: the head of the loop over the values of the variable, and
\* lines 480-487 after it
iterate_values ==
    /\ At("iterate_values")
    /\ IF Top.k < cbook_group_length(ctx.vars, Top.i)
       THEN /\ ctx' = [ctx EXCEPT
                          !.keys_vars = cdict_write(@, Top.name, CONTEXT_DICT_ITERATION,
                                                    cbook_word_index(ctx.vars, Top.i, Top.k)),
                          !.it_group = Top.group_start]
            /\ stack' = SetTop([Top EXCEPT !.pc = "iterate_groups"])
       ELSE /\ ctx' = IterateSkip(
                          [ctx EXCEPT !.keys_vars =
                              cdict_erase(@, Top.name, CONTEXT_DICT_ITERATION)],
                          Top.nested)
            /\ stack' = SetTop(Return(Top))
    /\ UNCHANGED <<scenario, cfg, log>>

\* line 471-474: the head of the loop over the captured lines; the body
\* calls sequence_parse
iterate_groups ==
    /\ At("iterate_groups")
    /\ IF ctx.it_group < Top.group_end
       THEN /\ ctx' = [ctx EXCEPT !.it_i = 0]
            /\ stack' = Append(SetTop([Top EXCEPT !.pc = "iterate_next"]),
                               Frame("sequence_parse"))
       ELSE /\ ctx' = ctx
            /\ stack' = SetTop([Top EXCEPT !.pc = "iterate_values", !.k = @ + 1])
    /\ UNCHANGED <<scenario, cfg, log>>

\* line 471: ctx->it_group++ after sequence_parse has returned
iterate_next ==
    /\ At("iterate_next")
    /\ ctx' = [ctx EXCEPT !.it_group = @ + 1]
    /\ stack' = SetTop([Top EXCEPT !.pc = "iterate_groups"])
    /\ UNCHANGED <<scenario, cfg, log>>

(***************************************************************************)
(* sequence.c: include; the source loader it calls                         *)
(***************************************************************************)
\* the directory of a path: the text before its last /
RECURSIVE DirOf(_, _)
DirOf(path, p) ==
    IF p <= 1 THEN ""
    ELSE IF CharAt(path, p) = "/" THEN SubSeq(path, 1, p - 1)
    ELSE DirOf(path, p - 1)

\* the fields of struct context that belong to the source being read
FileFields(c) ==
    [buffer |-> c.buffer, pos |-> c.pos, file_inode |-> c.file_inode,
     file_dir |-> c.file_dir, eol_reached |-> c.eol_reached,
     eof_reached |-> c.eof_reached, var_group |-> c.var_group, var_i |-> c.var_i,
     it_group |-> c.it_group, it_i |-> c.it_i, ancestors |-> c.ancestors]

WithFileFields(c, f) ==
    [c EXCEPT !.buffer = f.buffer, !.pos = f.pos, !.file_inode = f.file_inode,
              !.file_dir = f.file_dir, !.eol_reached = f.eol_reached,
              !.eof_reached = f.eof_reached, !.var_group = f.var_group,
              !.var_i = f.var_i, !.it_group = f.it_group, !.it_i = f.it_i,
              !.ancestors = f.ancestors]

OpenFile(files, path, ancestors) ==
    [buffer |-> files[path].text, pos |-> 1, file_inode |-> files[path].inode,
     file_dir |-> DirOf(path, Len(path)), eol_reached |-> FALSE, eof_reached |-> FALSE,
     var_group |-> 0, var_i |-> SIZE_MAX, it_group |-> 0, it_i |-> SIZE_MAX,
     ancestors |-> ancestors \cup {files[path].inode}]

\* CanParseChild without the look-up of the inode among the ancestors
CanParseChild_any(c, filename) ==
    /\ filename \in DOMAIN scenario.files
    /\ c.depth < CONTEXT_MAX_DEPTH

\* source_parse_child can parse filename: it opens, it is no ancestor, depth allows
CanParseChild(c, filename) ==
    /\ filename \in DOMAIN scenario.files
    /\ scenario.files[filename].inode \notin c.ancestors
    /\ c.depth < CONTEXT_MAX_DEPTH

\* include without the test of ctx->file_inode
include_in_memory ==
    /\ At("include")
    /\ stack' = SetTop(IF ctx.restricted
                       THEN Return(Top) ELSE [Top EXCEPT !.pc = "include_tokens"])
    /\ UNCHANGED <<scenario, cfg, ctx, log>>

include ==
    /\ At("include")
    /\ stack' = SetTop(IF ctx.restricted \/ ctx.file_inode = 0
                       THEN Return(Top) ELSE [Top EXCEPT !.pc = "include_tokens"])
    /\ UNCHANGED <<scenario, cfg, ctx, log>>

\* lines 384-401: one turn of the loop; source_parse_child opens a parse loop
include_tokens ==
    LET Child(c, filename) ==
            IF CanParseChild(c, filename)
            THEN /\ ctx' = WithFileFields(c, OpenFile(scenario.files, filename, c.ancestors))
                 /\ stack' = Append(stack, [Frame("parse_file") EXCEPT
                                               !.entry_depth = c.depth,
                                               !.saved = <<FileFields(c)>>])
                 /\ log' = [log EXCEPT !.files = Append(@, filename)]
            ELSE /\ ctx' = c
                 /\ stack' = stack
                 /\ log' = log
        Token(r) ==
            IF r.type = TOKEN_INVALID
            THEN /\ ctx' = r.ctx
                 /\ stack' = SetTop(Return(Top))
                 /\ log' = log
            ELSE Child(r.ctx, IF CharAt(r.token, 1) /= "/"
                              THEN r.ctx.file_dir \o "/" \o r.token ELSE r.token)
    IN  /\ At("include_tokens")
        /\ Token(context_get_token(ctx, FALSE))
        /\ UNCHANGED <<scenario, cfg>>

\* the error of the config when a load ends: a book that overflowed while the
\* source was parsed sets it
LoadError(c, err) ==
    IF c.sequences.err \/ c.vars.err \/ c.iteration.err THEN "OVERFLOW" ELSE err

\* the parse loop of a source: while (!eof_reached) { eol_reached = false;
\* sequence_parse(ctx); } and the return to the includer or to load
parse_file ==
    /\ At("parse_file")
    /\ IF ~ctx.eof_reached
       THEN /\ ctx' = [ctx EXCEPT !.eol_reached = FALSE]
            /\ stack' = Append(stack, Frame("sequence_parse"))
            /\ cfg' = cfg
       ELSE /\ ctx' = IF Top.saved = <<>> THEN ctx ELSE WithFileFields(ctx, Top.saved[1])
            /\ stack' = Pop
            /\ cfg' = IF Len(stack) = 1
                      THEN [cfg EXCEPT !.phase = "loaded", !.err = LoadError(ctx, @)]
                      ELSE cfg
    /\ UNCHANGED <<scenario, log>>

(***************************************************************************)
(* The public methods of ccfg.h, called by the embedding program           *)
(***************************************************************************)
NoGroup == SIZE_MAX

CERR_NONE == "NONE"
CERR_INVALID == "INVALID"
CERR_OVERFLOW == "OVERFLOW"
CERR_MEMORY == "MEMORY"

NewContext(restricted) ==
    [buffer |-> "", pos |-> 1, file_inode |-> 0, file_dir |-> "",
     depth |-> 0, eol_reached |-> FALSE, eof_reached |-> FALSE,
     skip_sequences |-> FALSE, restricted |-> restricted,
     var_group |-> 0, var_i |-> SIZE_MAX, it_group |-> 0, it_i |-> SIZE_MAX,
     vars |-> EmptyBook, iteration |-> EmptyBook, sequences |-> EmptyBook,
     keys_vars |-> EmptyDict, keys_sequences |-> EmptyDict,
     rand |-> 0, ancestors |-> {}, peak |-> 0]

\* a load that keeps the resources of the load before it
LoadContext_keep(c, restricted) ==
    [NewContext(restricted) EXCEPT !.sequences = c.sequences,
                                   !.keys_sequences = c.keys_sequences]

\* the context a load parses with: the resources of the load before are gone
LoadContext(c, restricted) == NewContext(restricted)

\* the first source of the list that can be opened, 0 if none
RECURSIVE FirstOpenable(_, _, _)
FirstOpenable(files, sources, k) ==
    IF k > Len(sources) THEN 0
    ELSE IF sources[k] \in DOMAIN files THEN k
    ELSE FirstOpenable(files, sources, k + 1)

\* a call of a method by the embedding program: the method and its arguments
Call(m, a) == [m |-> m, a |-> a]

\* The embedding program.  A scripted program (kind api) makes the calls of its
\* set-up in order and then up to MaxCalls calls of any method; the others push
\* their sources, load once, and then fetch and iterate.  load and
\* load_internal return when the parse has ended: no call is made before.
Caller(call) ==
    IF scenario.kind = "api"
    THEN /\ cfg.phase /= "parsing"
         /\ IF Len(log.hist) < Len(scenario.setup)
            THEN call = scenario.setup[Len(log.hist) + 1]
            ELSE Len(log.hist) < Len(scenario.setup) + MaxCalls
    ELSE CASE call.m = "push_source" ->
                 /\ cfg.phase = "created" /\ Len(cfg.sources) < Len(scenario.sources)
                 /\ call.a = <<scenario.sources[Len(cfg.sources) + 1]>>
           [] call.m = "load" ->
                 /\ cfg.phase = "created" /\ scenario.kind = "file"
                 /\ cfg.sources = scenario.sources
           [] call.m = "load_internal" ->
                 /\ cfg.phase = "created" /\ scenario.kind = "internal"
                 /\ call.a = <<scenario.buffer>>
           [] call.m = "fetch" -> cfg.phase = "loaded"
           [] call.m = "iterate" -> cfg.phase = "loaded" /\ cfg.last /= "none"
           [] OTHER -> FALSE

\* the history after a call has returned ret
Called(call, ret) ==
    [log EXCEPT !.call = [m |-> call.m, a |-> call.a, ret |-> ret],
                !.hist = IF scenario.kind = "api"
                         THEN Append(@, [m |-> call.m, a |-> call.a, ret |-> ret])
                         ELSE @]

\* the history when the resources are removed: lines, decls and files are the
\* lines dispatched, the resources declared and the files opened to build the
\* resources the config holds
Loading(call) ==
    [Called(call, "void") EXCEPT !.lines = <<>>, !.decls = <<>>, !.files = <<>>]

\* what a method returns when the config has an error
Default(m) ==
    CASE m \in {"iterate", "can_open_sources"} -> FALSE
      [] m = "resource" -> ""
      [] m = "resource_length" -> 0
      [] OTHER -> "void"

\* a method that does not return early although the config has an error
Short_through(call) == FALSE

\* a method called on a config that has an error returns early
Short(call) == cfg.err /= CERR_NONE

\* the early return: the default value, no side effect
EarlyReturn(call) ==
    /\ cfg' = cfg
    /\ ctx' = ctx
    /\ stack' = stack
    /\ log' = Called(call, Default(call.m))

\* the allocation this call makes fails: the last call of the set-up of a
\* scripted program, when the scenario says so
Fails(call) ==
    /\ scenario.kind = "api" /\ scenario.fail /= CERR_NONE
    /\ Len(log.hist) + 1 = Len(scenario.setup)

ccfg_push_source ==
    /\ \E call \in {Call("push_source", <<a>>) : a \in scenario.paths} :
          /\ Caller(call)
          /\ IF Short(call) THEN EarlyReturn(call)
             ELSE /\ cfg' = IF Fails(call) THEN [cfg EXCEPT !.err = scenario.fail]
                            ELSE [cfg EXCEPT !.sources = Append(@, call.a[1])]
                  /\ log' = Called(call, "void")
                  /\ UNCHANGED <<ctx, stack>>
    /\ UNCHANGED scenario

\* push_param_long, push_param_double, push_param_str: the value is not kept
ccfg_push_param ==
    /\ \E call \in {Call("push_param", <<a>>) : a \in {"m", "n"}} :
          /\ Caller(call)
          /\ IF Short(call) THEN EarlyReturn(call)
             ELSE /\ cfg' = IF Fails(call) THEN [cfg EXCEPT !.err = scenario.fail]
                            ELSE [cfg EXCEPT !.params = @ \cup {call.a[1]}]
                  /\ log' = Called(call, "void")
                  /\ UNCHANGED <<ctx, stack>>
    /\ UNCHANGED scenario

ccfg_clear_sources ==
    /\ \E call \in {Call("clear_sources", <<>>)} :
          /\ Caller(call)
          /\ IF Short(call) THEN EarlyReturn(call)
             ELSE /\ cfg' = [cfg EXCEPT !.sources = <<>>]
                  /\ log' = Called(call, "void")
                  /\ UNCHANGED <<ctx, stack>>
    /\ UNCHANGED scenario

ccfg_clear_params ==
    /\ \E call \in {Call("clear_params", <<>>)} :
          /\ Caller(call)
          /\ IF Short(call) THEN EarlyReturn(call)
             ELSE /\ cfg' = [cfg EXCEPT !.params = {}]
                  /\ log' = Called(call, "void")
                  /\ UNCHANGED <<ctx, stack>>
    /\ UNCHANGED scenario

\* the fetch cursor of a config whose resources have been removed
NoFetch(c) ==
    [c EXCEPT !.it_group = NoGroup, !.it_i = 0, !.key = <<"", "">>, !.got = <<>>,
              !.last = "none"]

ccfg_clear_resources ==
    /\ \E call \in {Call("clear_resources", <<>>)} :
          /\ Caller(call)
          /\ IF Short(call) THEN EarlyReturn(call)
             ELSE /\ cfg' = NoFetch(cfg)
                  /\ ctx' = [ctx EXCEPT !.sequences = EmptyBook,
                                        !.keys_sequences = EmptyDict]
                  /\ log' = Loading(call)
                  /\ stack' = stack
    /\ UNCHANGED scenario

ccfg_restrict ==
    /\ \E call \in {Call("restrict", <<>>)} :
          /\ Caller(call)
          /\ IF Short(call) THEN EarlyReturn(call)
             ELSE /\ cfg' = [cfg EXCEPT !.restricted = TRUE]
                  /\ log' = Called(call, "void")
                  /\ UNCHANGED <<ctx, stack>>
    /\ UNCHANGED scenario

ccfg_unrestrict ==
    /\ \E call \in {Call("unrestrict", <<>>)} :
          /\ Caller(call)
          /\ IF Short(call) THEN EarlyReturn(call)
             ELSE /\ cfg' = [cfg EXCEPT !.restricted = FALSE]
                  /\ log' = Called(call, "void")
                  /\ UNCHANGED <<ctx, stack>>
    /\ UNCHANGED scenario

\* repair that clears every error
Repaired_any(err) == CERR_NONE

\* the error after repair: CERR_INVALID cannot be recovered from
Repaired(err) == IF err \in {CERR_OVERFLOW, CERR_MEMORY} THEN CERR_NONE ELSE err

ccfg_repair ==
    /\ \E call \in {Call("repair", <<>>)} :
          /\ Caller(call)
          /\ cfg' = [cfg EXCEPT !.err = Repaired(@)]
          /\ log' = Called(call, "void")
          /\ UNCHANGED <<ctx, stack>>
    /\ UNCHANGED scenario

ccfg_load_internal ==
    /\ \E call \in {Call("load_internal", <<b>>) : b \in scenario.buffers} :
          /\ Caller(call)
          /\ IF Short(call) THEN EarlyReturn(call)
             ELSE /\ ctx' = [LoadContext(ctx, cfg.restricted) EXCEPT !.buffer = call.a[1]]
                  /\ stack' = <<Frame("parse_file")>>
                  /\ cfg' = [NoFetch(cfg) EXCEPT !.phase = "parsing"]
                  /\ log' = Loading(call)
    /\ UNCHANGED scenario

\* load that takes the last source that opens
Root_last(files, sources) ==
    IF \E k \in 1..Len(sources) : sources[k] \in DOMAIN files
    THEN CHOOSE k \in 1..Len(sources) :
            /\ sources[k] \in DOMAIN files
            /\ \A j \in (k + 1)..Len(sources) : sources[j] \notin DOMAIN files
    ELSE 0

\* the rank of the source load parses: the first that opens, 0 if none does
Root(files, sources) == FirstOpenable(files, sources, 1)

\* When no source opens the header says both that the resources are cleared
\* first and that the call has no effect: either is allowed.
ccfg_load ==
    /\ \E call \in {Call("load", <<>>)}, k \in {Root(scenario.files, cfg.sources)} :
          /\ Caller(call)
          /\ IF Short(call) THEN EarlyReturn(call)
             ELSE IF k = 0
             THEN /\ \/ /\ ctx' = ctx
                        /\ cfg' = [cfg EXCEPT !.phase = "loaded"]
                        /\ log' = Called(call, "void")
                     \/ /\ ctx' = [ctx EXCEPT !.sequences = EmptyBook,
                                              !.keys_sequences = EmptyDict]
                        /\ cfg' = [NoFetch(cfg) EXCEPT !.phase = "loaded"]
                        /\ log' = Loading(call)
                  /\ stack' = <<>>
             ELSE /\ ctx' = WithFileFields(LoadContext(ctx, cfg.restricted),
                                           OpenFile(scenario.files, cfg.sources[k], {}))
                  /\ stack' = <<Frame("parse_file")>>
                  /\ cfg' = [NoFetch(cfg) EXCEPT !.phase = "parsing"]
                  /\ log' = [Loading(call) EXCEPT !.files = <<cfg.sources[k]>>]
    /\ UNCHANGED scenario

\* the group fetch finds for (namespace, property), NoGroup if there is none
FetchGroup(c, namespace, property) ==
    IF ~cdict_find(c.keys_sequences, namespace, 0) THEN NoGroup
    ELSE IF ~cdict_find(c.keys_sequences, property, cdict_value(c.keys_sequences, namespace, 0))
    THEN NoGroup
    ELSE cdict_value(c.keys_sequences, property, cdict_value(c.keys_sequences, namespace, 0))

ccfg_resource_of(c, q) ==
    IF q.err /= CERR_NONE \/ q.it_group = NoGroup \/ q.it_i = 0 THEN ""
    ELSE cbook_word_in_group(c.sequences, q.it_group, q.it_i - 1)

ccfg_resource == ccfg_resource_of(ctx, cfg)

ccfg_resource_length ==
    IF cfg.err /= CERR_NONE \/ cfg.it_group = NoGroup THEN 0
    ELSE cbook_group_length(ctx.sequences, cfg.it_group)

ccfg_can_open_sources ==
    cfg.err = CERR_NONE /\ FirstOpenable(scenario.files, cfg.sources, 1) /= 0

\* the calls of the methods that change nothing: resource, resource_length and
\* can_open_sources
ccfg_pure ==
    /\ \E call \in {Call(m, <<>>) : m \in {"resource", "resource_length", "can_open_sources"}} :
          /\ Caller(call)
          /\ log' = Called(call, CASE call.m = "resource" -> ccfg_resource
                                   [] call.m = "resource_length" -> ccfg_resource_length
                                   [] OTHER -> ccfg_can_open_sources)
    /\ UNCHANGED <<scenario, cfg, ctx, stack>>

\* fetch that keeps the group of the fetch before when it finds none
FetchCursor_keep(q, group) ==
    [q EXCEPT !.it_group = IF group = NoGroup THEN @ ELSE group, !.it_i = 0]

\* fetch records the group found, or that none was, and resets the cursor
FetchCursor(q, group) == [q EXCEPT !.it_group = group, !.it_i = 0]

ccfg_fetch ==
    /\ \E call \in {Call("fetch", key) : key \in scenario.keys} :
          /\ Caller(call)
          /\ IF Short(call) THEN EarlyReturn(call)
             ELSE /\ cfg' = [FetchCursor(cfg, FetchGroup(ctx, call.a[1], call.a[2]))
                                EXCEPT !.key = call.a, !.got = <<>>, !.last = "fetch"]
                  /\ log' = Called(call, "void")
                  /\ UNCHANGED <<ctx, stack>>
    /\ UNCHANGED scenario

ccfg_iterate ==
    /\ \E call \in {Call("iterate", <<>>)} :
          /\ Caller(call)
          /\ IF Short(call) THEN EarlyReturn(call)
             ELSE IF /\ cfg.it_group /= NoGroup
                     /\ cfg.it_i < cbook_group_length(ctx.sequences, cfg.it_group)
             THEN /\ cfg' = [cfg EXCEPT
                                !.it_i = @ + 1, !.last = "true",
                                !.got = Append(@, ccfg_resource_of(ctx, [cfg EXCEPT !.it_i = @ + 1]))]
                  /\ log' = Called(call, TRUE)
                  /\ UNCHANGED <<ctx, stack>>
             ELSE /\ cfg' = [cfg EXCEPT !.last = "false"]
                  /\ log' = Called(call, FALSE)
                  /\ UNCHANGED <<ctx, stack>>
    /\ UNCHANGED scenario

(***************************************************************************)
(* The sources the embedding program loads                                 *)
(***************************************************************************)
RECURSIVE Join(_, _)
Join(words, sep) ==
    IF words = <<>> THEN ""
    ELSE IF Len(words) = 1 THEN words[1]
    ELSE words[1] \o sep \o Join(Tail(words), sep)

\* sources made of resource declarations whose tokens are plain strings
PlainLines ==
    [ns : {"a", "b"}, prop : {"p"}, vals : {<<"x">>, <<"y", "x">>, <<"x", "y", "z">>}]
    \cup [ns : {"a"}, prop : {"q"}, vals : {<<"y">>, <<"x", "x">>}]

PlainText(l) == l.ns \o " " \o l.prop \o " " \o Join(l.vals, " ")

RECURSIVE PlainTexts(_)
PlainTexts(lines) ==
    IF lines = <<>> THEN <<>> ELSE <<PlainText(lines[1])>> \o PlainTexts(Tail(lines))

PlainKeys == {<<"a", "p">>, <<"b", "p">>, <<"a", "q">>, <<"b", "q">>}

\* the values of the last line of lines that declares key, <<>> if none does
RECURSIVE LastVals(_, _, _)
LastVals(lines, key, n) ==
    IF n = 0 THEN <<>>
    ELSE IF <<lines[n].ns, lines[n].prop>> = key THEN lines[n].vals
    ELSE LastVals(lines, key, n - 1)

\* files the sources can include
Files ==
    [p \in {"/etc/main", "/etc/child", "/etc/loop", "/etc/solo", "/etc/twin"} |->
        CASE p = "/etc/main" -> [inode |-> 1, text |-> "a p x\nINCLUDE child /etc/none\na q y"]
          [] p = "/etc/child" -> [inode |-> 2, text |-> "b p z\nINCLUDE loop"]
          [] p = "/etc/loop" -> [inode |-> 3, text |-> "INCLUDE /etc/main child\nb q x"]
          [] p = "/etc/solo" -> [inode |-> 4, text |-> "c p w"]
          [] p = "/etc/twin" -> [inode |-> 5, text |-> "c q v"]]

\* a scenario: the source, the restricted flag of the config, and for each key
\* the embedding program fetches the values the source declares for it
Internal(family, buffer, restricted, expect) ==
    [family |-> family, kind |-> "internal", buffer |-> buffer, sources |-> <<>>,
     files |-> Files, restricted |-> restricted, keys |-> DOMAIN expect,
     expect |-> expect, plain |-> <<>>,
     buffers |-> {buffer}, paths |-> {}, setup |-> <<>>, fail |-> "NONE",
     placeholder |-> FALSE]

PlainScenarios ==
    {[Internal("plain", Join(PlainTexts(lines), "\n"), restricted,
               [key \in PlainKeys |-> LastVals(lines, key, Len(lines))])
        EXCEPT !.plain = lines] :
        lines \in UNION {[1..n -> PlainLines] : n \in 1..MaxLines},
        restricted \in BOOLEAN}

Only(key, vals) == [k \in PlainKeys |-> IF k = key THEN vals ELSE <<>>]

ValueLists == {<<"x">>, <<"y", "x">>, <<"x", "y", "z">>}

\* a variable declared twice, then injected in the second declaration of a p
RedeclScenarios ==
    {Internal("redecl",
              "LET v " \o Join(v1, " ") \o "\nLET v " \o Join(v2, " ")
                  \o "\na p y\na p $ v",
              FALSE, Only(<<"a", "p">>, v2)) :
        v1 \in ValueLists, v2 \in ValueLists}

\* a variable injected in a value list, followed by plain tokens
InjectScenarios ==
    {Internal("inject",
              "LET v " \o Join(x, " ") \o "\na p $ v" \o Join(<<"">> \o t, " "),
              FALSE, Only(<<"a", "p">>, x \o t)) :
        x \in ValueLists, t \in {<<>>, <<"t">>, <<"t", "u">>}}

\* the injection of a variable that is not bound, after the values s
UnboundScenarios ==
    {Internal("unbound",
              "LET v x\na p" \o Join(<<"">> \o s, " ") \o " $ w t u",
              FALSE, Only(<<"a", "p">>, s)) :
        s \in {<<>>, <<"s">>, <<"s", "r">>}}

\* SECTION_ADD add / SECTION s1 / bg color x / SECTION s2 / bg tint y
SectionKeys == {<<"bg", "color">>, <<"bg", "tint">>}

TagLists == {<<>>, <<"l">>, <<"d">>, <<"l", "d">>, <<"d", "l">>}

Words(leader, tags) == Join(<<leader>> \o tags, " ")

SectionActive(add, tags) == \A n \in 1..Len(tags) : \E m \in 1..Len(add) : add[m] = tags[n]

SectionScenarios ==
    {[Internal("section",
               Join(<<Words("SECTION_ADD", add), Words("SECTION", s1), "  bg color x",
                      Words("SECTION", s2), "  bg tint y">>, "\n"),
               FALSE,
               [k \in SectionKeys |->
                   IF k[2] = "color" THEN IF SectionActive(add, s1) THEN <<"x">> ELSE <<>>
                   ELSE IF SectionActive(add, s2) THEN <<"y">> ELSE <<>>])
        EXCEPT !.plain = <<[ns |-> "SECTION", prop |-> "", vals |-> s1],
                           [ns |-> "SECTION", prop |-> "", vals |-> s2]>>] :
        add \in {<<>>, <<"l">>, <<"l", "d">>}, s1 \in TagLists, s2 \in TagLists}

\* a line of each privileged kind, dispatched after RESTRICT
PrivilegedLines ==
    {"LET v y", "LET n y", "LET_APPEND v v s", "LET_MERGE n v v", "ENUM v 3", "SEED 5",
     "SECTION_ADD d", "SECTION_DEL l", "SECTION d", "SECTION", "PRINT $ v",
     "FOR v\na p y\nFOR_END", "INCLUDE /etc/child", "RESTRICT", "b q $ v"}

FrameScenarios ==
    {Internal("frame",
              "LET v x\nSECTION_ADD l\nSEED 2\n" \o (IF inline THEN "RESTRICT\n" ELSE "")
                  \o line \o "\na p z",
              ~inline,
              [k \in PlainKeys |->
                  IF k = <<"a", "p">> THEN <<"z">>
                  ELSE IF k = <<"b", "q">> /\ line = "b q $ v" /\ inline THEN <<"x">>
                  ELSE <<>>]) :
        line \in PrivilegedLines, inline \in BOOLEAN}

\* a line of each kind, dispatched in an inactive section
SkipScenarios ==
    {Internal("skip",
              "LET v x\nSECTION_ADD l\nSEED 2\nSECTION d\n" \o line \o "\nSECTION\na p z",
              FALSE,
              [k \in PlainKeys |-> IF k = <<"a", "p">> THEN <<"z">> ELSE <<>>]) :
        line \in PrivilegedLines \cup {"b p y", "FOR v i\nFOR v j\nb p y\nFOR_END\nFOR_END"}}

\* a FOR over m values around a FOR over n values, between plain lines
ReplayValues == <<"1", "2", "3">>

ReplayText(m, n) ==
    "LET v " \o Join(SubSeq(ReplayValues, 1, m), " ") \o "\n"
    \o "LET w " \o Join(SubSeq(ReplayValues, 1, n), " ") \o "\n"
    \o "b0 p x\nFOR v i\nl1 p x\nFOR w j\nl2 p x\nl3 p x\nFOR_END\nl4 p x\nFOR_END\nb5 p x"

ReplayScenarios ==
    {[Internal("replay", ReplayText(m, n), FALSE,
               [k \in {<<"l2", "p">>, <<"b5", "p">>} |-> <<"x">>])
        EXCEPT !.plain = <<m, n>>] : m \in 1..2, n \in 1..3}

\* an operator and an ENUM with a last operand that is a number, an invalid
\* colour, or no number; what the load gives if the operand that is no
\* number counts as missing
NumeralExpect ==
    [abc |-> [k \in {<<"b", "p">>, <<"c", "p">>} |->
                 IF k[1] = "b" THEN <<>> ELSE <<"0", "1", "2">>],
     color |-> [k \in {<<"b", "p">>, <<"c", "p">>} |->
                   IF k[1] = "b" THEN <<>> ELSE <<"0", "1", "2">>],
     number |-> [k \in {<<"b", "p">>, <<"c", "p">>} |->
                    IF k[1] = "b" THEN <<"3.00000000">> ELSE <<"k">>]]

NumeralOperands == [abc |-> "abc", color |-> "#zz", number |-> "2"]

NumeralScenarios ==
    {[Internal("numeral",
               "b p + 1 " \o NumeralOperands[id] \o "\nLET e k\nENUM e 2 "
               \o NumeralOperands[id] \o "\nc p $ e",
               FALSE, NumeralExpect[id])
        EXCEPT !.plain = <<id>>] : id \in DOMAIN NumeralOperands}

\* IF_* with a branch that loses the comparison and is an operator, a
\* variable of one value, or a variable of three; expect is the winning
\* branch and the words after the IF_*
BranchLines ==
    [op_second |-> [text |-> "x p ?= 1 1 yes + 1 2 tail", expect |-> <<"yes", "tail">>],
     op_first |-> [text |-> "x p ?< 2 1 + 1 2 no tail", expect |-> <<"no", "tail">>],
     one_second |-> [text |-> "x p ?= 1 1 yes $ u tail", expect |-> <<"yes", "tail">>],
     one_first |-> [text |-> "x p ?> 1 2 $ u no tail", expect |-> <<"no", "tail">>],
     many_second |-> [text |-> "x p ?= 1 1 yes $ v tail", expect |-> <<"yes", "tail">>],
     many_first |-> [text |-> "x p ?= 1 2 $ v no tail", expect |-> <<"no", "tail">>]]

BranchScenarios ==
    {[Internal("branch", "LET u a\nLET v a b c\n" \o BranchLines[id].text, FALSE,
               [k \in {<<"x", "p">>} |-> BranchLines[id].expect])
        EXCEPT !.plain = <<id>>] : id \in DOMAIN BranchLines}

\* ENUM lines after LET e k: without name, without numeral, with steps < 1,
\* with precision < 0, with a name that is an unbound injection, and one that
\* is complete; expect is e and nope after the line if only the complete line
\* binds
GuardLines ==
    [noname |-> "ENUM", nonum |-> "ENUM e", steps |-> "ENUM e 0 5 0",
     precision |-> "ENUM e 0 4 2 -1", badname |-> "ENUM $ nope 2 5", ok |-> "ENUM e 2"]

GuardScenarios ==
    {[Internal("guard", "LET e k\n" \o GuardLines[id] \o "\nc p $ e\nd p $ nope", FALSE,
               [k \in {<<"c", "p">>, <<"d", "p">>} |->
                   IF k[1] = "d" THEN <<>>
                   ELSE IF id = "ok" THEN <<"0", "1", "2">> ELSE <<"k">>])
        EXCEPT !.plain = <<id>>] : id \in DOMAIN GuardLines}

\* quoted words: word is the text in the source, token what the lexer is to
\* return for it
QuoteWords ==
    [single |-> [word |-> "'a b'", token |-> "a b"],
     double |-> [word |-> "\"a(b)\tc\"", token |-> "a(b)\tc"],
     newline |-> [word |-> "'a\nb'", token |-> "a\nb"],
     mixed |-> [word |-> "a'b c'\"d e\"f", token |-> "ab cd ef"],
     apostrophe |-> [word |-> "\"it's\"", token |-> "it's"],
     inner |-> [word |-> "'say \"hi\" now'", token |-> "say \"hi\" now"]]

QuoteScenarios ==
    {[Internal("quote", "x p " \o QuoteWords[id].word \o " z\ny q w", FALSE,
               [k \in {<<"x", "p">>, <<"y", "q">>} |->
                   IF k[1] = "x" THEN <<QuoteWords[id].token, "z">> ELSE <<"w">>])
        EXCEPT !.plain = <<id>>] : id \in DOMAIN QuoteWords}

\* words as long as a token can be, and longer
RECURSIVE Doubled(_, _)
Doubled(word, n) == IF n = 0 THEN word ELSE Doubled(word \o word, n - 1)

\* len times the character c, for len up to twice TOKEN_MAX_LEN
Run(c, len) == SubSeq(Doubled(c, 11), 1, len)

CapacityLines ==
    [fits |-> [text |-> "x p " \o Run("a", TOKEN_MAX_LEN - 1) \o " z",
               expect |-> <<Run("a", TOKEN_MAX_LEN - 1), "z">>],
     over |-> [text |-> "x p " \o Run("a", TOKEN_MAX_LEN - 1) \o "bcd z",
               expect |-> <<Run("a", TOKEN_MAX_LEN - 1), "z">>],
     quoted |-> [text |-> "x p '" \o Run("a", TOKEN_MAX_LEN - 3) \o " b cd' z",
                 expect |-> <<Run("a", TOKEN_MAX_LEN - 3) \o " b", "z">>],
     join |-> [text |-> "x p JOIN " \o Run("a", TOKEN_MAX_LEN - 4) \o " bcdef z",
               expect |-> <<Run("a", TOKEN_MAX_LEN - 4) \o "bcd", "z">>],
     joinfull |-> [text |-> "x p JOIN " \o Run("a", TOKEN_MAX_LEN + 2) \o " bcdef z",
                   expect |-> <<Run("a", TOKEN_MAX_LEN - 1), "z">>]]

CapacityScenarios ==
    {[Internal("capacity", CapacityLines[id].text \o "\ny q w", FALSE,
               [k \in {<<"x", "p">>, <<"y", "q">>} |->
                   IF k[1] = "x" THEN CapacityLines[id].expect ELSE <<"w">>])
        EXCEPT !.plain = <<id>>] : id \in DOMAIN CapacityLines}

\* sources that end within a quote
OpenQuoteLines ==
    [space |-> [text |-> "a q z\nx p 'a b", expect |-> <<"a b">>],
     newline |-> [text |-> "a q z\nx p w \"a\nb", expect |-> <<"w", "a\nb">>]]

OpenQuoteScenarios ==
    {[Internal("openquote", OpenQuoteLines[id].text, FALSE,
               [k \in {<<"x", "p">>, <<"a", "q">>} |->
                   IF k[1] = "x" THEN OpenQuoteLines[id].expect ELSE <<"z">>])
        EXCEPT !.plain = <<id>>] : id \in DOMAIN OpenQuoteLines}

\* lines whose handlers leave tokens or values of an injection unread
LeftoverText ==
    "LET v 1 2 3\nSEED $ v junk\nx p y\nFOR v i more tokens\nz q $ v $ nope w\n"
    \o "FOR_END junk\nlast r s"

LeftoverScenarios ==
    {Internal("leftover", LeftoverText, FALSE,
              [k \in {<<"x", "p">>, <<"z", "q">>, <<"last", "r">>} |->
                  CASE k[1] = "x" -> <<"y">>
                    [] k[1] = "z" -> <<"1", "2", "3">>
                    [] OTHER -> <<"s">>])}

\* keywords after ESCAPE, as values and as leaders of a line; expect is what
\* the load gives if each is a plain word
LiteralLines ==
    [values |-> [text |-> "x p \\ $ \\ LET \\ + \\ // \\ EOF y\nLET v a\nc p $ v",
                 ns |-> "x", expect |-> <<"$", "LET", "+", "//", "EOF", "y">>],
     declare |-> [text |-> "LET v a\n\\ LET v b\nc p $ v",
                  ns |-> "LET", expect |-> <<"b">>],
     restrict |-> [text |-> "\\ RESTRICT v x\nLET v a\nc p $ v",
                   ns |-> "RESTRICT", expect |-> <<"x">>],
     loop |-> [text |-> "LET v a\n\\ FOR v i\nc p $ v\n\\ FOR_END v j",
               ns |-> "FOR", expect |-> <<"i">>],
     eof |-> [text |-> "\\ EOF v x\nLET v a\nc p $ v",
              ns |-> "EOF", expect |-> <<"x">>]]

LiteralScenarios ==
    {[Internal("literal", LiteralLines[id].text, FALSE,
               [k \in {<<LiteralLines[id].ns, IF id = "values" THEN "p" ELSE "v">>,
                        <<"c", "p">>} |->
                   IF k[1] = "c" THEN <<"a">> ELSE LiteralLines[id].expect])
        EXCEPT !.plain = <<id>>] : id \in DOMAIN LiteralLines}

\* a combination line after LET s x1 x2 x3, LET y y1 y2 y3 and LET d old;
\* group is the group d is to be bound to after the line, d its values
CombineLines ==
    [append |-> [text |-> "LET_APPEND d s t", group |-> 3, d |-> <<"x1t", "x2t", "x3t">>],
     prepend |-> [text |-> "LET_PREPEND d s t", group |-> 3, d |-> <<"tx1", "tx2", "tx3">>],
     merge |-> [text |-> "LET_MERGE d s y", group |-> 3, d |-> <<"x1y1", "x2y2", "x3y3">>],
     self |-> [text |-> "LET_MERGE d s s", group |-> 3, d |-> <<"x1x1", "x2x2", "x3x3">>],
     unbound |-> [text |-> "LET_APPEND d nope t", group |-> 2, d |-> <<"old">>],
     unbound2 |-> [text |-> "LET_PREPEND d nope t", group |-> 2, d |-> <<"old">>],
     unmerged |-> [text |-> "LET_MERGE d s nope", group |-> 2, d |-> <<"old">>],
     unmerged2 |-> [text |-> "LET_MERGE d nope y", group |-> 2, d |-> <<"old">>]]

CombineScenarios ==
    {[Internal("combine",
               "LET s x1 x2 x3\nLET y y1 y2 y3\nLET d old\n" \o CombineLines[id].text
               \o "\nr p $ d\nr q $ s",
               FALSE,
               [k \in {<<"r", "p">>, <<"r", "q">>} |->
                   IF k[2] = "p" THEN CombineLines[id].d ELSE <<"x1", "x2", "x3">>])
        EXCEPT !.plain = <<id>>] : id \in DOMAIN CombineLines}

\* an EOF marker: as a line of the source, among the values of a line, and
\* as a line of the body of a FOR; expect is what the load gives if no line
\* is dispatched once the marker is evaluated
MarkerLines ==
    [line |-> [text |-> "x p a\nEOF\ny q b", x |-> <<"a">>, y |-> <<>>],
     value |-> [text |-> "x p a EOF c\ny q b", x |-> <<"a">>, y |-> <<>>],
     none |-> [text |-> "x p a\ny q b", x |-> <<"a">>, y |-> <<"b">>],
     body |-> [text |-> "LET v 1 2\nFOR v\nx p a\nEOF\ny q b\nFOR_END\nz r c",
               x |-> <<"a">>, y |-> <<>>]]

MarkerScenarios ==
    {[Internal("marker", MarkerLines[id].text, FALSE,
               [k \in {<<"x", "p">>, <<"y", "q">>, <<"z", "r">>} |->
                   CASE k[1] = "x" -> MarkerLines[id].x
                     [] k[1] = "y" -> MarkerLines[id].y
                     [] OTHER -> <<>>])
        EXCEPT !.plain = <<id>>] : id \in DOMAIN MarkerLines}

\* a comment after the values of x.p, before the line y q b: at the top level
\* and in the body of a FOR, with and without a quote character in it, and as
\* first branch of an IF_*; expect is what the load gives if the comment ends
\* its line and the next line is dispatched
CommentTexts ==
    [top |-> "x p a // note b\ny q b\nz r c",
     topquote |-> "x p a // it's b\ny q b\nz r c",
     leader |-> "x p a\n// it's x p b\ny q b\nz r c",
     body |-> "LET v 1\nFOR v\nx p a // note b\ny q b\nFOR_END\nz r c",
     bodyquote |-> "LET v 1\nFOR v\nx p a // it's b\ny q b\nFOR_END\nz r c",
     branch |-> "x p a ?= 1 2 // b\ny q b\nz r c"]

CommentScenarios ==
    {[Internal("comment", CommentTexts[id], FALSE,
               [k \in {<<"x", "p">>, <<"y", "q">>, <<"z", "r">>} |->
                   CASE k[1] = "x" -> <<"a">>
                     [] k[1] = "y" -> <<"b">>
                     [] OTHER -> <<"c">>])
        EXCEPT !.plain = <<id>>] : id \in DOMAIN CommentTexts}

\* namespaces declared in turn, with declarations without values between
\* them, and a property that has the name of a namespace
NamespaceText ==
    "a p x\nb p\nc p y\na q z\nb q\nc q w\nb\nd p v\nd a u\nb p t"

NamespaceScenarios ==
    {Internal("namespace", NamespaceText, FALSE,
              [k \in {<<"a", "p">>, <<"c", "p">>, <<"d", "p">>, <<"b", "p">>, <<"a", "q">>,
                       <<"c", "q">>, <<"d", "a">>, <<"b", "q">>, <<"a", "a">>} |->
                  CASE k = <<"a", "p">> -> <<"x">>
                    [] k = <<"c", "p">> -> <<"y">>
                    [] k = <<"d", "p">> -> <<"v">>
                    [] k = <<"b", "p">> -> <<"t">>
                    [] k = <<"a", "q">> -> <<"z">>
                    [] k = <<"c", "q">> -> <<"w">>
                    [] k = <<"d", "a">> -> <<"u">>
                    [] OTHER -> <<>>])}

\* RESTRICT in an inactive section and SECTION lines in restricted mode
ModeTexts ==
    [skipped  |-> "SECTION t\nRESTRICT\nb p y\nSECTION\nLET v x\na p $ v",
     inline   |-> "RESTRICT\nSECTION t\nLET v x\na p z $ v",
     active   |-> "SECTION_ADD t\nSECTION t\nRESTRICT\nSECTION u\na p z\nSECTION\nb p y",
     both     |-> "SECTION t\nRESTRICT\nSECTION\nRESTRICT\nSECTION t\na p z",
     loaded   |-> "SECTION t\na p z\nSECTION\nRESTRICT\nb p y"]

ModeExpect ==
    [skipped  |-> [a |-> <<"x">>, b |-> <<>>],
     inline   |-> [a |-> <<"z">>, b |-> <<>>],
     active   |-> [a |-> <<"z">>, b |-> <<"y">>],
     both     |-> [a |-> <<"z">>, b |-> <<>>],
     loaded   |-> [a |-> <<"z">>, b |-> <<"y">>]]

ModeScenarios ==
    {[Internal("mode", ModeTexts[id], id = "loaded",
               [k \in {<<"a", "p">>, <<"b", "p">>} |->
                   IF k[1] = "a" THEN ModeExpect[id].a ELSE ModeExpect[id].b])
        EXCEPT !.plain = <<id>>] : id \in DOMAIN ModeTexts}

\* a FOR line that is rejected before the capture of its body: the leaders
\* the source dispatches, in order
RejectedLines ==
    [unbound |-> [text |-> "LET v 1 2\nFOR u i\nx p a\ny q b\nFOR_END\nz r c",
                  leaders |-> <<"LET", "FOR", "x", "y", "FOR_END", "z">>],
     bare    |-> [text |-> "LET v 1 2\nFOR u\nx p a\ny q b\nFOR_END\nz r c",
                  leaders |-> <<"LET", "FOR", "x", "y", "FOR_END", "z">>],
     unnamed |-> [text |-> "LET v 1 2\nFOR\nx p a\ny q b\nFOR_END\nz r c",
                  leaders |-> <<"LET", "FOR", "x", "y", "FOR_END", "z">>],
     twice   |-> [text |-> "FOR u\nx p a\nFOR_END\nFOR u i\ny q b\nFOR_END\nz r c",
                  leaders |-> <<"FOR", "x", "FOR_END", "FOR", "y", "FOR_END", "z">>],
     inner   |-> [text |-> "LET v 1 2\nFOR u\nx p a\nFOR v\ny q b\nFOR_END\nz r c\nFOR_END",
                  leaders |-> <<"LET", "FOR", "x", "FOR", "y", "y", "z", "FOR_END">>]]

RejectedScenarios ==
    {[Internal("rejected", RejectedLines[id].text, FALSE,
               [k \in {<<"x", "p">>, <<"y", "q">>, <<"z", "r">>, <<"FOR_END", "p">>} |->
                   CASE k[1] = "x" -> <<"a">>
                     [] k[1] = "y" -> <<"b">>
                     [] k[1] = "z" -> <<"c">>
                     [] OTHER -> <<>>])
        EXCEPT !.plain = <<id>>] : id \in DOMAIN RejectedLines}

\* a FOR block over a bound variable that the source does not close, and
\* the leaders the source dispatches
UnterminatedLines ==
    [body    |-> [text |-> "a p z\nLET v 1 2\nFOR v i\nx p a\ny q b",
                  leaders |-> <<"a", "LET", "FOR">>],
     empty   |-> [text |-> "a p z\nLET v 1 2\nFOR v",
                  leaders |-> <<"a", "LET", "FOR">>],
     inner   |-> [text |-> "a p z\nLET v 1 2\nFOR v i\nx p a\nFOR v j\ny q b\nFOR_END\nz r c",
                  leaders |-> <<"a", "LET", "FOR">>],
     after   |-> [text |-> "LET v 1\nFOR v\na p z\nFOR_END\nFOR v\nx p a\n\ny q b\n",
                  leaders |-> <<"LET", "FOR", "a", "FOR">>]]

UnterminatedScenarios ==
    {[Internal("unterminated", UnterminatedLines[id].text, FALSE,
               [k \in {<<"a", "p">>, <<"x", "p">>, <<"y", "q">>, <<"z", "r">>} |->
                   IF k[1] = "a" THEN <<"z">> ELSE <<>>])
        EXCEPT !.plain = <<id>>] : id \in DOMAIN UnterminatedLines}

\* an EOF marker in an inactive section, as a line and among the values of
\* a line; expect is what the load gives if the marker is not honoured
InactiveTexts ==
    [leader |-> "SECTION t\nEOF\nSECTION\na p z",
     second |-> "x q y\nSECTION t\nb p w\nEOF\nb p u\nSECTION\na p z",
     value  |-> "SECTION t\nb p EOF\nSECTION\na p z"]

InactiveScenarios ==
    {[Internal("inactive", InactiveTexts[id], FALSE,
               [k \in {<<"a", "p">>, <<"b", "p">>} |->
                   IF k[1] = "a" THEN <<"z">> ELSE <<>>])
        EXCEPT !.plain = <<id>>] : id \in DOMAIN InactiveTexts}

\* FOR blocks one after the other under one alias: completed, then around a
\* rejected and a completed nested FOR; rejected, then without FOR_END
CleanupTexts ==
    [reuse |-> "LET v 1 2\nFOR v i\nl1 p x\nFOR_END\nFOR v i\nFOR v i\nl2 p x\nFOR_END\n"
               \o "FOR v j\nl3 p x\nFOR_END\nFOR_END\nb q y",
     failed |-> "FOR u i\nl1 p x\nFOR_END\nLET v 1 2\nFOR v i\nl2 p x\nFOR v j\nl3 p x\nFOR_END"]

CleanupScenarios ==
    {[Internal("cleanup", CleanupTexts[id], FALSE,
               IF id = "reuse" THEN [k \in {<<"l3", "p">>, <<"b", "q">>} |->
                                        IF k[1] = "b" THEN <<"y">> ELSE <<"x">>]
               ELSE [k \in {<<"l1", "p">>} |-> <<"x">>])
        EXCEPT !.plain = <<id>>] : id \in DOMAIN CleanupTexts}

\* FOR nested to the depth limit, and ChainDepth short of it, around a line
\* that injects a variable whose value injects itself
ChainDepth == 8

RECURSIVE DeepFor(_)
DeepFor(n) ==
    IF n = 0 THEN "r p $ a\n"
    ELSE "FOR b w" \o NatToStr(n) \o "\n" \o DeepFor(n - 1) \o "FOR_END\n"

ScriptTexts ==
    [S2 |-> "LET colors red green blue\nui accent $ colors",
     S5 |-> "LET widgets label button\nFOR widgets w\n  $ w border 1\nFOR_END",
     S6 |-> "SECTION_ADD light\nSECTION dark\n  bg color #000\nSECTION light\n  bg color #fff",
     cycle |-> "LET a x \\ $ a\nr p $ a\nr q y",
     full |-> "LET a \\ $ a\nLET b x\n" \o DeepFor(CONTEXT_MAX_DEPTH - 1) \o "r q y",
     deep |-> "LET a \\ $ a\nLET b x\n" \o DeepFor(CONTEXT_MAX_DEPTH - ChainDepth) \o "r q y",
     inc |-> "a p x\nINCLUDE /etc/child child\na q y",
     late |-> "LET v x y\nFOR v\nRESTRICT\na p $ v\nFOR_END\nLET v z\na q $ v",
     tour |-> "LET v x y\nLET_APPEND w v s\nLET_PREPEND u v s\nLET_MERGE m w u\n"
              \o "ENUM e 0 10 5\nSEED 5\nPRINT $ v\nSECTION_ADD l d\nSECTION_DEL d\n"
              \o "SECTION l\nFOR v\nFOR e n\nr p $ m\nFOR_END\nFOR_END\n"
              \o "RESTRICT\nRESTRICT\nLET v z\nr q $ e"]

ScriptExpect ==
    [S2 |-> [k \in {<<"ui", "accent">>} |-> <<"red", "green", "blue">>],
     S5 |-> [k \in {<<"label", "border">>, <<"button", "border">>} |-> <<"1">>],
     S6 |-> [k \in {<<"bg", "color">>} |-> <<"#fff">>],
     cycle |-> [k \in {<<"r", "q">>} |-> <<"y">>],
     full |-> [k \in {<<"r", "p">>, <<"r", "q">>} |-> IF k[2] = "q" THEN <<"y">> ELSE <<>>],
     deep |-> [k \in {<<"r", "p">>, <<"r", "q">>} |-> IF k[2] = "q" THEN <<"y">> ELSE <<>>],
     inc |-> [k \in PlainKeys |->
                 IF k = <<"a", "p">> THEN <<"x">>
                 ELSE IF k = <<"a", "q">> THEN <<"y">> ELSE <<>>],
     late |-> [k \in {<<"a", "p">>, <<"a", "q">>} |-> <<"x", "y">>],
     tour |-> [k \in {<<"r", "p">>, <<"r", "q">>} |->
                 IF k[2] = "p" THEN <<"xssx", "yssy">>
                 ELSE <<"0", "2", "4", "6", "8", "10">>]]

ScriptScenarios ==
    {Internal(id, ScriptTexts[id], FALSE, ScriptExpect[id]) : id \in DOMAIN ScriptTexts}

\* sources read from files: the first of the list that opens is the root
FileScenarios ==
    {[Internal("file", "", restricted,
               [k \in PlainKeys |->
                   IF opens = 0 THEN <<>>
                   ELSE IF k = <<"a", "p">> THEN <<"x">>
                   ELSE IF k = <<"a", "q">> THEN <<"y">>
                   ELSE IF restricted THEN <<>>
                   ELSE IF k = <<"b", "p">> THEN <<"z">> ELSE <<"x">>])
        EXCEPT !.kind = "file",
               !.paths = {"/etc/none", "/etc/main", "/etc/child"},
               !.sources = IF opens = 0 THEN <<"/etc/none">>
                           ELSE <<"/etc/none", "/etc/main", "/etc/child">>] :
        restricted \in BOOLEAN, opens \in {0, 1}}

\* logical lines with a separator between two of their tokens: a space
\* (family joined) or ESCAPE and a newline (family escape); at the top level,
\* past the tokens the handler reads, and in the body of a FOR
EscapeKeys == {<<"a", "p">>, <<"a", "q">>, <<"r", "p">>}

EscapeTexts(sep) ==
    [top |-> "a p x" \o sep \o "y\na q z",
     drain |-> "SEED 1 2" \o sep \o "a p x\na q z",
     body |-> "LET v 1\nFOR v\nr p x" \o sep \o "y\nFOR_END\na q z"]

EscapeExpect ==
    [top |-> [k \in EscapeKeys |->
                 IF k = <<"a", "p">> THEN <<"x", "y">>
                 ELSE IF k = <<"a", "q">> THEN <<"z">> ELSE <<>>],
     drain |-> [k \in EscapeKeys |-> IF k = <<"a", "q">> THEN <<"z">> ELSE <<>>],
     body |-> [k \in EscapeKeys |->
                 IF k = <<"r", "p">> THEN <<"x", "y">>
                 ELSE IF k = <<"a", "q">> THEN <<"z">> ELSE <<>>]]

EscapeScenarios ==
    {[Internal(family, EscapeTexts(IF family = "joined" THEN " " ELSE " \\\n")[id],
               FALSE, EscapeExpect[id])
        EXCEPT !.plain = <<id>>] :
        family \in {"joined", "escape"}, id \in DOMAIN EscapeExpect}

\* a construct that fails, between the lines a p x, LET m k and the lines
\* a q z, c p $ m
SilentKeys == {<<"a", "p">>, <<"a", "q">>, <<"b", "p">>, <<"c", "p">>}

SilentConstructs ==
    [unbound |-> "b p $ nope",
     operand |-> "b p + 1",
     numeral |-> "b p + 1 abc",
     color |-> "b p + 1 #zz",
     merge |-> "LET_MERGE m m nope",
     for |-> "FOR m\nb p y",
     depth |-> "LET a \\ $ a\nLET b x\n" \o DeepFor(CONTEXT_MAX_DEPTH - 1)]

\* what the load gives if the construct changes nothing and the lines after
\* it are dispatched
SilentExpect ==
    [k \in SilentKeys |->
        CASE k = <<"a", "p">> -> <<"x">>
          [] k = <<"a", "q">> -> <<"z">>
          [] k = <<"b", "p">> -> <<>>
          [] k = <<"c", "p">> -> <<"k">>]

SilentScenarios ==
    {[Internal("silent",
               "a p x\nLET m k\n" \o SilentConstructs[id]
               \o (IF id = "depth" THEN "" ELSE "\n") \o "a q z\nc p $ m",
               FALSE, SilentExpect)
        EXCEPT !.plain = <<id>>] : id \in DOMAIN SilentConstructs}

\* resource lines whose values are math operators in prefix notation
MathLines ==
    [sum |-> [key |-> <<"sizes", "big">>, vals |-> "+ 10 5", expect |-> <<"15.00000000">>],
     nest |-> [key |-> <<"r", "p">>, vals |-> "+ 1 * 2 3", expect |-> <<"7.00000000">>],
     nest2 |-> [key |-> <<"r", "n">>, vals |-> "* + 1 2 - 7 ABS -3",
                expect |-> <<"12.00000000">>],
     rest |-> [key |-> <<"r", "t">>, vals |-> "x + 1 2 3 MAX 4 5.5 y",
               expect |-> <<"x", "3.00000000", "3", "5.50000000", "y">>],
     unary |-> [key |-> <<"r", "u">>, vals |-> "ABS -2 5", expect |-> <<"2.00000000", "5">>],
     short |-> [key |-> <<"r", "q">>, vals |-> "+ 1", expect |-> <<>>],
     short2 |-> [key |-> <<"r", "s">>, vals |-> "x MIN 2 + 1", expect |-> <<"x">>]]

MathKeys == {MathLines[id].key : id \in DOMAIN MathLines}

MathScenarios ==
    {[Internal("math",
               MathLines[id].key[1] \o " " \o MathLines[id].key[2] \o " " \o MathLines[id].vals
               \o "\na q z",
               FALSE,
               [k \in MathKeys \cup {<<"a", "q">>} |->
                   IF k = MathLines[id].key THEN MathLines[id].expect
                   ELSE IF k = <<"a", "q">> THEN <<"z">> ELSE <<>>])
        EXCEPT !.plain = <<id>>] : id \in DOMAIN MathLines}

\* ENUM e with one to four numerals, then r p $ e.  min, max, steps and
\* precision are the parameters after the defaults, as doubles; vals are the
\* values the line binds e to, <<>> when it binds none
Num(n) == n * NumScale

Half(n) == (n * NumScale) \div 2

EnumLines ==
    [one |-> [text |-> "3", min |-> 0, max |-> Num(3), steps |-> Num(3), precision |-> 0,
              vals |-> <<"0", "1", "2", "3">>],
     two |-> [text |-> "2 5", min |-> Num(2), max |-> Num(5), steps |-> Num(3),
              precision |-> 0, vals |-> <<"2", "3", "4", "5">>],
     three |-> [text |-> "0 10 5", min |-> 0, max |-> Num(10), steps |-> Num(5),
                precision |-> 0, vals |-> <<"0", "2", "4", "6", "8", "10">>],
     four |-> [text |-> "0 1 4 2", min |-> 0, max |-> Num(1), steps |-> Num(4),
               precision |-> Num(2), vals |-> <<"0.00", "0.25", "0.50", "0.75", "1.00">>],
     round |-> [text |-> "0 1 4", min |-> 0, max |-> Num(1), steps |-> Num(4),
                precision |-> 0, vals |-> <<"0", "0", "0", "1", "1">>],
     frac |-> [text |-> "0 10 2.5", min |-> 0, max |-> Num(10), steps |-> Half(5),
               precision |-> 0, vals |-> <<"0", "4", "8">>],
     fracmax |-> [text |-> "2.5", min |-> 0, max |-> Half(5), steps |-> Half(5),
                  precision |-> 0, vals |-> <<"0", "1", "2">>],
     zero |-> [text |-> "0", min |-> 0, max |-> 0, steps |-> 0, precision |-> 0,
               vals |-> <<>>],
     down |-> [text |-> "5 2", min |-> Num(5), max |-> Num(2), steps |-> 0 - Num(3),
               precision |-> 0, vals |-> <<>>],
     neg |-> [text |-> "0 4 2 -1", min |-> 0, max |-> Num(4), steps |-> Num(2),
              precision |-> 0 - Num(1), vals |-> <<>>]]

EnumScenarios ==
    {[Internal("enum", "ENUM e " \o EnumLines[id].text \o "\nr p $ e", FALSE,
               [k \in {<<"r", "p">>} |-> EnumLines[id].vals])
        EXCEPT !.plain = <<EnumLines[id]>>] : id \in DOMAIN EnumLines}

\* embedding programs that call the methods in any order after a set-up
ApiBuffers == {"a p x\nc p w w", "b p y"}

ApiPaths == {"/etc/none", "/etc/solo", "/etc/twin"}

ApiKeys == {<<"a", "p">>, <<"c", "p">>, <<"c", "q">>}

\* a source that declares more words than a book holds
OverflowText ==
    "LET v a b c d e f g h\nLET w $ v $ v $ v $ v\nr p $ w $ w $ w $ w $ w $ w"

ApiSetups ==
    [fallback |-> <<Call("push_source", <<"/etc/none">>), Call("push_source", <<"/etc/solo">>),
                    Call("push_source", <<"/etc/twin">>), Call("load", <<>>),
                    Call("fetch", <<"c", "p">>), Call("iterate", <<>>),
                    Call("iterate", <<>>), Call("iterate", <<>>),
                    Call("push_param", <<"n">>)>>,
     reload |-> <<Call("load_internal", <<"a p x\nc p w w">>), Call("fetch", <<"a", "p">>),
                  Call("iterate", <<>>), Call("push_source", <<"/etc/solo">>),
                  Call("load", <<>>), Call("fetch", <<"a", "p">>)>>,
     rebuffer |-> <<Call("push_source", <<"/etc/twin">>), Call("load", <<>>),
                    Call("fetch", <<"c", "q">>), Call("iterate", <<>>),
                    Call("load_internal", <<"b p y">>)>>,
     overflow |-> <<Call("load_internal", <<OverflowText>>)>>,
     placeholder |-> <<>>]

Api(id, fail) ==
    [Internal(id, "", FALSE, [k \in ApiKeys |-> <<>>])
        EXCEPT !.kind = "api", !.setup = ApiSetups[id], !.fail = fail,
               !.paths = ApiPaths,
               !.buffers = IF id = "overflow" THEN {OverflowText, "b p y"} ELSE ApiBuffers,
               !.placeholder = (id = "placeholder")]

ApiScenarios ==
    {Api(id, "NONE") : id \in DOMAIN ApiSetups}
    \cup {Api("fallback", fail) : fail \in {"MEMORY", "OVERFLOW"}}

Scenarios ==
    PlainScenarios \cup RedeclScenarios \cup InjectScenarios \cup UnboundScenarios
    \cup SectionScenarios \cup FrameScenarios \cup ScriptScenarios \cup FileScenarios
    \cup ApiScenarios \cup EscapeScenarios \cup SilentScenarios \cup MathScenarios
    \cup EnumScenarios \cup SkipScenarios \cup ReplayScenarios
    \cup CleanupScenarios \cup NumeralScenarios
    \cup BranchScenarios \cup GuardScenarios
    \cup QuoteScenarios \cup CapacityScenarios
    \cup OpenQuoteScenarios \cup LeftoverScenarios
    \cup LiteralScenarios \cup CombineScenarios
    \cup MarkerScenarios \cup CommentScenarios
    \cup NamespaceScenarios
    \cup ModeScenarios
    \cup RejectedScenarios
    \cup UnterminatedScenarios
    \cup InactiveScenarios

(***************************************************************************)
(* Specification                                                           *)
(***************************************************************************)
Init ==
    /\ scenario \in Scenarios
    /\ cfg = [phase |-> "created", restricted |-> scenario.restricted,
              err |-> IF scenario.placeholder THEN CERR_INVALID ELSE CERR_NONE,
              sources |-> <<>>, params |-> {},
              it_group |-> NoGroup, it_i |-> 0,
              key |-> <<"", "">>, got |-> <<>>, last |-> "none"]
    /\ ctx = NewContext(FALSE)
    /\ stack = <<>>
    /\ log = [lines |-> <<>>, decls |-> <<>>, files |-> <<>>,
              call |-> [m |-> "create", a |-> <<>>, ret |-> "void"], hist |-> <<>>]

Next ==
    \/ ccfg_push_source
    \/ ccfg_push_param
    \/ ccfg_clear_sources
    \/ ccfg_clear_params
    \/ ccfg_clear_resources
    \/ ccfg_restrict
    \/ ccfg_unrestrict
    \/ ccfg_repair
    \/ ccfg_load_internal
    \/ ccfg_load
    \/ ccfg_pure
    \/ ccfg_fetch
    \/ ccfg_iterate
    \/ parse_file
    \/ sequence_parse
    \/ sequence_parse_end
    \/ declare_resource
    \/ declare_resource_values
    \/ declare_variable
    \/ declare_variable_values
    \/ combine_var
    \/ declare_enum
    \/ restrict_mode
    \/ seed
    \/ print
    \/ print_tokens
    \/ section_add
    \/ section_add_tokens
    \/ section_begin
    \/ section_begin_tokens
    \/ section_del
    \/ section_del_tokens
    \/ include
    \/ include_tokens
    \/ iterate
    \/ preproc_iter_new
    \/ preproc_iter_nest
    \/ iterate_values
    \/ iterate_groups
    \/ iterate_next

Spec == Init /\ [][Next]_vars

(***************************************************************************)
(* Properties                                                              *)
(***************************************************************************)
Loaded == cfg.phase = "loaded"

\* fetch, then iterate until it returned false: cfg.got holds what resource()
\* yielded after each iterate that returned true
Fetched == Loaded /\ cfg.last = "false"

Expected == scenario.expect[cfg.key]

\* the number of lines of a plain source that declare key
Declarations(key) ==
    Cardinality({n \in 1..Len(scenario.plain) :
                    <<scenario.plain[n].ns, scenario.plain[n].prop>> = key})

\* C1: a plain line ns prop v1 .. vn that is the last to declare (ns, prop) is
\* read back by fetch and iterate: iterate returns true n times, resource()
\* yields v1 .. vn in order, then iterate returns false, and resource_length()
\* is n, from a buffer and from a file.
RoundTrip ==
    Loaded /\ scenario.family \in {"plain", "file"} /\ cfg.last /= "none"
           /\ Expected /= <<>>
    => /\ ccfg_resource_length = Len(Expected)
       /\ cfg.last = "fetch" => cfg.got = <<>>
       /\ cfg.last = "true" =>
             /\ cfg.it_i \in 1..Len(Expected)
             /\ cfg.got = SubSeq(Expected, 1, cfg.it_i)
             /\ ccfg_resource = Expected[cfg.it_i]
       /\ cfg.last = "false" => cfg.got = Expected

RoundTripWitness ==
    /\ Fetched /\ scenario.family = "plain"
    /\ cfg.key = <<"b", "p">> /\ cfg.got = <<"x", "y", "z">>
    /\ Len(scenario.plain) = 2 /\ Declarations(cfg.key) = 1

\* C2: the last declaration wins.  A resource declared by several lines of one
\* load is fetched with exactly the values of the last of them, and a variable
\* declared twice is injected with the values of its second declaration.
LastWins ==
    Fetched /\ (\/ scenario.family = "plain" /\ Declarations(cfg.key) >= 2
                \/ scenario.family = "redecl" /\ cfg.key = <<"a", "p">>)
    => cfg.got = Expected

LastWinsWitness ==
    /\ Fetched /\ scenario.family = "redecl"
    /\ scenario.buffer = "LET v x\nLET v x y z\na p y\na p $ v"
    /\ cfg.key = <<"a", "p">> /\ cfg.got = <<"x", "y", "z">>

\* the tags registered by SECTION_ADD at this point of the parse
Registered(tag) == cdict_find(ctx.keys_vars, tag, CONTEXT_DICT_SECTION)

\* the SECTION lines dispatched so far
SectionLines == {n \in 1..Len(log.lines) : log.lines[n].type = "SECTION_BEGIN"}

\* C3: section gating.  When the handler of a SECTION line has returned,
\* skip_sequences is true iff one of the tags of the line is not registered,
\* and false for a line with no tag; a resource line is declared iff
\* skip_sequences is false when it is dispatched; and with only light
\* registered, SECTION dark / bg color #000 / SECTION light / bg color #fff
\* leaves exactly (bg, color) = [#fff].
SectionGating ==
    /\ scenario.family = "section" /\ At("goto_eol") /\ Top.type = "SECTION_BEGIN"
       => (ctx.skip_sequences
           <=> \E n \in 1..Len(scenario.plain[Cardinality(SectionLines)].vals) :
                  ~Registered(scenario.plain[Cardinality(SectionLines)].vals[n]))
    /\ scenario.family \in {"section", "S6"} /\ cfg.phase = "parsing" /\ stack /= <<>>
          /\ Top.pc \in {"declare_resource", "declare_resource_values", "goto_eol"}
          /\ Top.token = "bg"
       => (Top.type = TOKEN_INVALID <=> ctx.skip_sequences)
    /\ scenario.family \in {"section", "S6"} /\ Fetched => cfg.got = Expected
    /\ scenario.family = "S6" /\ Loaded => log.decls = <<<<"bg", "color">>>>

SectionGatingWitness ==
    /\ scenario.family = "S6" /\ Fetched
    /\ cfg.key = <<"bg", "color">> /\ cfg.got = <<"#fff">>
    /\ Len(log.lines) = 5

\* C4: a variable injected in a value list is replayed whole and in order
\* before the next token of the line is read from the buffer, and the
\* injection of a name that is not bound ends the value list of the line.
Injection ==
    Fetched /\ scenario.family \in {"inject", "unbound", "S2"} => cfg.got = Expected

InjectionWitness ==
    /\ Fetched /\ scenario.family = "inject"
    /\ cfg.key = <<"a", "p">> /\ cfg.got = <<"y", "x", "t", "u">>

\* C5: FOR widgets w / $ w border 1 / FOR_END with widgets bound to label and
\* button declares (label, border) = [1] and (button, border) = [1].
AliasInjection ==
    Fetched /\ scenario.family = "S5" => cfg.got = Expected

\* what the next token read depends on: the position in the buffer and in the
\* replay of variable and iteration values, and the books and bindings read
ReaderState(c) ==
    <<c.pos, c.eol_reached, c.eof_reached, c.var_group, c.var_i, c.it_group, c.it_i,
      c.depth, c.vars, c.iteration, c.keys_vars>>

\* C6: a load runs to completion, every token-collection loop obtaining
\* INVALID after finitely many tokens.  A turn of the value loop of a resource
\* line that goes on to another turn therefore never leaves the reader in the
\* state it found it in: the loop is deterministic in that state, so it would
\* collect the same token for ever.
LoopAdvances ==
    [][At("declare_resource_values") /\ stack' /= <<>> /\ Len(stack') = Len(stack)
          /\ stack'[Len(stack')].pc = "declare_resource_values"
       => ReaderState(ctx') /= ReaderState(ctx)]_vars

\* the calls of sequence_parse that are past the depth guard
ActiveLines == {n \in 1..Len(stack) : stack[n].pc \notin {"sequence_parse", "parse_file"}}

\* tokens of every kind the expander handles
GuardTokens == {"x", "$", "JOIN", "\\", "=", "//", "EOF", "?=", "+", "TRUE"}

\* C7: the depth stays within 0..CONTEXT_MAX_DEPTH, also inside the expander;
\* it equals the number of dispatcher calls in progress whenever the expander
\* has returned, so that the expander and the dispatcher each leave it as they
\* found it; and at depth CONTEXT_MAX_DEPTH the expander returns INVALID and
\* the context it was given.
DepthGuard ==
    /\ ctx.depth \in 0..CONTEXT_MAX_DEPTH
    /\ ctx.peak \in ctx.depth..CONTEXT_MAX_DEPTH
    /\ ctx.depth = Cardinality(ActiveLines)
    /\ \A n \in ActiveLines : stack[n].entry_depth + 1 = Cardinality({m \in ActiveLines : m <= n})
    /\ ctx.depth = CONTEXT_MAX_DEPTH
       => \A token \in GuardTokens :
             substitution_apply(ctx, token, FALSE) = Res(ctx, TOKEN_INVALID, token, 0)

DepthGuardWitness ==
    /\ ctx.depth = CONTEXT_MAX_DEPTH /\ At("goto_eol")
    /\ Top.type = TOKEN_INVALID /\ Top.token = "r"

\* the line in hand was dispatched in restricted mode
RestrictedLine ==
    /\ cfg.phase = "parsing" /\ stack /= <<>>
    /\ \/ Top.pc = "sequence_parse" /\ ctx.restricted
       \/ Top.pc \notin {"sequence_parse", "parse_file"} /\ Top.entry_restricted

\* C8: no step of a line dispatched in restricted mode changes the variable
\* book, the entries of keys_vars, skip_sequences or the seed; a line that is
\* no resource declaration changes no resource either; and a resource
\* declaration dispatched in restricted mode is stored.
RestrictedFrame ==
    /\ [][RestrictedLine =>
             /\ ctx'.vars = ctx.vars
             /\ ctx'.keys_vars = ctx.keys_vars
             /\ ctx'.skip_sequences = ctx.skip_sequences
             /\ ctx'.rand = ctx.rand
             /\ Top.pc /= "sequence_parse" /\ HandlerOf(Top.type) /= "declare_resource"
                => /\ ctx'.sequences = ctx.sequences
                   /\ ctx'.keys_sequences = ctx.keys_sequences]_vars
    /\ [](scenario.family = "frame" /\ Fetched => cfg.got = Expected)

RestrictedFrameWitness ==
    /\ scenario.family = "frame" /\ At("goto_eol")
    /\ Top.entry_restricted /\ Top.type = "SECTION_ADD"
    /\ ctx.vars.groups /= <<>>

\* C9: once restricted is set during a load no step of the load clears it.
RestrictPermanent ==
    [][cfg.phase = "parsing" /\ ctx.restricted => ctx'.restricted]_vars

RestrictPermanentWitness ==
    /\ cfg.phase = "parsing" /\ ctx.restricted
    /\ \E n \in 1..Len(log.lines) :
          /\ log.lines[n].type = "RESTRICT"
          /\ \E m \in (n + 1)..Len(log.lines) : log.lines[m].type = "RESTRICT"

ParseFrames == {n \in 1..Len(stack) : stack[n].pc = "parse_file"}

\* the inode of the source the parse at stack[n] reads: the one the next parse
\* has saved, or the one of the context
InodeOf(n) ==
    IF \E m \in ParseFrames : m > n
    THEN stack[CHOOSE m \in ParseFrames : m > n /\ \A k \in ParseFrames : k > n => m <= k]
             .saved[1].file_inode
    ELSE ctx.file_inode

\* C11: during a load from files the sources being parsed have pairwise
\* distinct inodes, the ancestor set is exactly the set of those inodes (so it
\* is restored when a child parse returns), a chain of includes is no longer
\* than the number of files, and the files that include each other in a cycle
\* are each parsed once.
IncludeCycle ==
    /\ scenario.kind = "file" /\ cfg.phase = "parsing"
       => /\ \A m, n \in ParseFrames : InodeOf(m) = InodeOf(n) => m = n
          /\ ctx.ancestors = {InodeOf(n) : n \in ParseFrames}
          /\ Cardinality(ParseFrames) <= Cardinality(DOMAIN scenario.files)
    /\ scenario.kind = "file" /\ Loaded
       => /\ ctx.ancestors \subseteq {ctx.file_inode}
          /\ \A m, n \in 1..Len(log.files) : log.files[m] = log.files[n] => m = n

IncludeCycleWitness ==
    /\ scenario.kind = "file" /\ Loaded
    /\ log.files = <<"/etc/main", "/etc/child", "/etc/loop">>
    /\ FetchGroup(ctx, "b", "q") /= NoGroup

\* a scripted embedding program has just made a call
Calls == scenario.kind = "api" /\ Len(log'.hist) = Len(log.hist) + 1

\* C12: while the error of the config is OVERFLOW or MEMORY, every method but
\* repair returns its default value (false, the empty string, 0) and leaves
\* the config as it is: its sources, parameters, restricted flag, resources,
\* fetch cursor and error.
StickyError ==
    [][Calls /\ cfg.err \in {CERR_OVERFLOW, CERR_MEMORY} /\ log'.call.m /= "repair"
       => /\ cfg' = cfg
          /\ ctx' = ctx
          /\ stack' = stack
          /\ log'.call.ret = Default(log'.call.m)]_vars

StickyErrorWitness ==
    /\ scenario.family = "fallback" /\ cfg.err = CERR_MEMORY
    /\ Len(log.hist) = Len(scenario.setup) + 2
    /\ log.hist[Len(scenario.setup) + 1].m = "fetch"
    /\ log.call.m = "load"
    /\ cfg.phase = "loaded" /\ FetchGroup(ctx, "c", "p") /= NoGroup
    /\ cfg.key = <<"c", "p">> /\ cfg.params = {}

\* C13: repair sets the error to NONE when it is OVERFLOW or MEMORY and leaves
\* INVALID (and NONE) as it is, changing nothing else; the placeholder config
\* has the error INVALID in every state, and no method called on it, repair
\* included, has a side effect.
Repair ==
    /\ [][Calls /\ log'.call.m = "repair"
          => /\ cfg'.err = (IF cfg.err = CERR_INVALID THEN CERR_INVALID ELSE CERR_NONE)
             /\ [cfg' EXCEPT !.err = cfg.err] = cfg
             /\ ctx' = ctx]_vars
    /\ [](scenario.placeholder => cfg.err = CERR_INVALID)
    /\ [][Calls /\ scenario.placeholder
          => /\ cfg' = cfg
             /\ ctx' = ctx
             /\ stack' = stack
             /\ log'.call.ret = Default(log'.call.m)]_vars

RepairWitness ==
    /\ scenario.placeholder
    /\ Len(log.hist) = 2
    /\ log.hist[1].m = "repair"
    /\ log.call.m = "load_internal"
    /\ cfg.phase = "created" /\ cfg.err = CERR_INVALID

\* C14: load replaces the resources.  After a load that opens a source, a key
\* that the source does not declare is not fetchable, even if the load before
\* declared it: fetch finds no group, resource_length is 0 and iterate
\* returns false.
LoadReplaces ==
    /\ scenario.kind = "api" /\ Loaded /\ cfg.err = CERR_NONE /\ cfg.last /= "none"
    /\ \A n \in 1..Len(log.decls) : log.decls[n] /= cfg.key
    => /\ cfg.it_group = NoGroup
       /\ ccfg_resource_length = 0
       /\ cfg.last /= "true"
       /\ cfg.got = <<>>

LoadReplacesWitness ==
    /\ scenario.family = "reload" /\ Loaded
    /\ Len(log.hist) = Len(scenario.setup) + 1
    /\ log.hist[2] = [m |-> "fetch", a |-> <<"a", "p">>, ret |-> "void"]
    /\ log.hist[3].m = "iterate" /\ log.hist[3].ret = TRUE
    /\ log.hist[5].m = "load" /\ log.files = <<"/etc/solo">>
    /\ cfg.key = <<"a", "p">>
    /\ log.call.m = "iterate" /\ log.call.ret = FALSE
    /\ FetchGroup(ctx, "c", "p") /= NoGroup

\* the embedding program calls load on a config without error
Loads ==
    /\ log'.call.m = "load" /\ cfg.err = CERR_NONE
    /\ \/ log'.hist /= log.hist
       \/ scenario.kind = "file" /\ cfg.phase = "created" /\ cfg'.phase /= "created"

Openable(k) == k \in 1..Len(cfg.sources) /\ cfg.sources[k] \in DOMAIN scenario.files

\* C15: load parses exactly one source, the first in the order of the pushes
\* that can be opened: the sources pushed before it that cannot be opened are
\* skipped, the sources pushed after it are not parsed even if they can be
\* opened, and if none can be opened nothing is parsed and the error stays
\* NONE.
SourceFallback ==
    /\ [][Loads =>
            IF \E k \in 1..Len(cfg.sources) : Openable(k)
            THEN \E k \in 1..Len(cfg.sources) :
                    /\ Openable(k)
                    /\ \A j \in 1..(k - 1) : ~Openable(j)
                    /\ log'.files = <<cfg.sources[k]>>
                    /\ ctx'.buffer = scenario.files[cfg.sources[k]].text
                    /\ ctx'.pos = 1
                    /\ stack' = <<Frame("parse_file")>>
            ELSE /\ stack' = <<>> /\ cfg'.phase = "loaded"
                 /\ cfg'.err = CERR_NONE
                 /\ log'.lines \in {<<>>, log.lines}
                 /\ ctx'.pos = ctx.pos]_vars
    /\ [](scenario.kind = "api" /\ Loaded /\ cfg.err = CERR_NONE
             /\ log.files = <<"/etc/solo">>
          => /\ FetchGroup(ctx, "c", "p") /= NoGroup
             /\ FetchGroup(ctx, "c", "q") = NoGroup
             /\ log.decls = <<<<"c", "p">>>>)

SourceFallbackWitness ==
    /\ scenario.family = "fallback" /\ Loaded
    /\ log.call.m = "load" /\ Len(log.hist) = 4
    /\ cfg.sources = <<"/etc/none", "/etc/solo", "/etc/twin">>
    /\ log.files = <<"/etc/solo">>
    /\ FetchGroup(ctx, "c", "p") /= NoGroup

\* a scripted embedding program calls iterate on a config without error
Iterates == Calls /\ log'.call.m = "iterate" /\ cfg.err = CERR_NONE

\* C16: once iterate has returned false it returns false again, and moves
\* nothing, until the next fetch; and after a fetch of a key that was never
\* declared the next iterate returns false, even when the fetch before it
\* found a resource.
IterateBoundary ==
    /\ [][Iterates /\ cfg.last = "false"
          => /\ log'.call.ret = FALSE
             /\ cfg' = cfg]_vars
    /\ [][Iterates /\ cfg.last = "fetch"
             /\ (\A n \in 1..Len(log.decls) : log.decls[n] /= cfg.key)
          => /\ log'.call.ret = FALSE
             /\ cfg'.it_i = 0 /\ cfg'.got = <<>>]_vars

IterateBoundaryWitness ==
    /\ scenario.family = "fallback" /\ scenario.fail = "NONE"
    /\ Len(log.hist) = Len(scenario.setup) + 2
    /\ log.hist[5] = [m |-> "fetch", a |-> <<"c", "p">>, ret |-> "void"]
    /\ log.hist[6].ret = TRUE /\ log.hist[7].ret = FALSE /\ log.hist[8].ret = FALSE
    /\ log.hist[10] = [m |-> "fetch", a |-> <<"c", "q">>, ret |-> "void"]
    /\ log.call.m = "iterate" /\ log.call.ret = FALSE
    /\ cfg.err = CERR_NONE

\* C17: ESCAPE followed by a newline between two tokens of a logical line
\* changes nothing: the load gives the resources of the line written with a
\* space instead, at the top level, past the tokens the handler reads, and in
\* the body of a FOR.
EscapeNewline ==
    Fetched /\ scenario.family \in {"joined", "escape"} => cfg.got = Expected

\* C18: the failures of the parser are silent and local.  After the injection
\* of an unbound variable, an operator with a missing operand, a malformed
\* numeral, a LET_MERGE whose second variable is absent, a FOR without FOR_END
\* or a line at the depth limit, the error is NONE, the resources and the
\* variables are those declared by the other lines, and the lines after the
\* construct have been dispatched.
SilentFailures ==
    Fetched /\ scenario.family = "silent" => cfg.got = Expected /\ cfg.err = CERR_NONE

\* C19: a math operator of arity n used as a value takes the next n numeral
\* tokens, each substituted first so that operators nest in prefix order, and
\* gives one value with 8 fractional digits; the tokens after its operands
\* are values of their own; when fewer than n numerals remain on the line the
\* operator is INVALID and the values of the line end before it.
PrefixMath ==
    /\ Fetched /\ scenario.family = "math" => cfg.got = Expected
    /\ scenario.family = "math" /\ Loaded /\ scenario.plain \in {<<"short">>, <<"short2">>}
       => Len(log.lines) = 2 /\ cfg.err = CERR_NONE

PrefixMathWitness ==
    /\ Fetched /\ scenario.family = "math" /\ scenario.plain = <<"nest">>
    /\ cfg.key = <<"r", "p">> /\ cfg.got = <<"7.00000000">>

\* the parameters of the ENUM line of the scenario, and the values e has
EnumLine == scenario.plain[1]

EnumFetched == Fetched /\ scenario.family = "enum"

SkippedLine ==
    /\ cfg.phase = "parsing" /\ stack /= <<>> /\ ctx.skip_sequences
    /\ \/ /\ Top.pc = "sequence_parse" /\ Len(stack') = Len(stack)
          /\ token_match(stack'[Len(stack')].token) /= "SECTION_BEGIN"
       \/ /\ Top.pc \notin {"sequence_parse", "parse_file"}
          /\ token_match(Top.token) /= "SECTION_BEGIN"

\* C21: while skip_sequences is set, a line whose leader is not SECTION_BEGIN
\* is drained: no step of it changes the resources, the variable book and
\* dictionary (section tags and aliases included), the iteration book or the
\* restricted flag, it opens no file and calls no handler, whatever the
\* leader is.
InactiveFrame ==
    /\ [][SkippedLine =>
             /\ ctx'.sequences = ctx.sequences
             /\ ctx'.keys_sequences = ctx.keys_sequences
             /\ ctx'.vars = ctx.vars
             /\ ctx'.keys_vars = ctx.keys_vars
             /\ ctx'.iteration = ctx.iteration
             /\ ctx'.restricted = ctx.restricted
             /\ ctx'.skip_sequences
             /\ log'.files = log.files
             /\ Len(stack') <= Len(stack)]_vars
    /\ [](scenario.family = "skip" /\ Fetched => cfg.got = Expected)

InactiveFrameWitness ==
    /\ scenario.family = "skip" /\ At("goto_eol") /\ ctx.skip_sequences
    /\ Top.token = "RESTRICT" /\ Top.type = TOKEN_INVALID
    /\ ~ctx.restricted

\* the leaders of the lines the dispatcher has handled, in order
Leaders == [n \in 1..Len(log.lines) |-> log.lines[n].token]

RECURSIVE Times(_, _)
Times(lines, m) == IF m = 0 THEN <<>> ELSE lines \o Times(lines, m - 1)

\* the lines of the source of a replay scenario in the order the claim gives
ReplayOrder(m, n) ==
    <<"LET", "LET", "b0", "FOR">>
    \o Times(<<"l1", "FOR">> \o Times(<<"l2", "l3">>, n) \o <<"l4">>, m)
    \o <<"b5">>

\* C22: for a FOR over m values whose body holds a FOR over n values, the
\* dispatcher handles the lines of the outer body m times each, in the order
\* of the body for the first value, then for the second, and so on; the lines
\* of the inner body m * n times and never as plain lines of the outer body;
\* then the line after the outer FOR_END, and no body line again.
ReplayCount ==
    scenario.family = "replay"
    => /\ Len(Leaders) <= Len(ReplayOrder(scenario.plain[1], scenario.plain[2]))
       /\ Leaders = SubSeq(ReplayOrder(scenario.plain[1], scenario.plain[2]), 1, Len(Leaders))
       /\ Loaded => /\ Leaders = ReplayOrder(scenario.plain[1], scenario.plain[2])
                    /\ ctx.eof_reached

ReplayCountWitness ==
    /\ scenario.family = "replay" /\ Loaded /\ scenario.plain = <<2, 3>>
    /\ Len(Leaders) = 23
    /\ FetchGroup(ctx, "l3", "p") /= NoGroup /\ FetchGroup(ctx, "b5", "p") /= NoGroup

\* the frames of the FOR lines under the top of the stack: the loops around it
OuterLoops == {n \in 1..(Len(stack) - 1) : stack[n].type = "FOR_BEGIN"}

\* the handler of a FOR line has returned to the dispatcher
LoopReturns == At("goto_eol") /\ Top.type = "FOR_BEGIN"

Aliases(c) == {k \in DOMAIN c.keys_vars : k[2] = CONTEXT_DICT_ITERATION}

\* C23: when the handler of a FOR line that lies in no other FOR returns,
\* completed, rejected or failed, the iteration book is empty and keys_vars
\* has no entry under ITERATION; when the handler of a nested FOR returns,
\* the alias it bound is erased, every loop around it still has its alias
\* bound to its current value, and the iteration book is as it was captured.
ForCleanup ==
    /\ [](LoopReturns /\ OuterLoops = {}
            => /\ cbook_length(ctx.iteration) = 0
               /\ cbook_groups_number(ctx.iteration) = 0
               /\ Aliases(ctx) = {})
    /\ [](LoopReturns /\ OuterLoops /= {}
            => /\ Top.name /= "" => ~cdict_find(ctx.keys_vars, Top.name, CONTEXT_DICT_ITERATION)
               /\ \A n \in OuterLoops :
                     /\ cdict_find(ctx.keys_vars, stack[n].name, CONTEXT_DICT_ITERATION)
                     /\ cdict_value(ctx.keys_vars, stack[n].name, CONTEXT_DICT_ITERATION)
                        = cbook_word_index(ctx.vars, stack[n].i, stack[n].k)
               /\ Aliases(ctx) = {<<stack[n].name, CONTEXT_DICT_ITERATION>> : n \in OuterLoops})
    /\ [][\A n \in 1..Len(stack) :
              stack[n].pc = "iterate_next" /\ n < Len(stack)
              => ctx'.iteration = ctx.iteration]_vars
    /\ [](scenario.family = "cleanup" /\ Fetched => cfg.got = Expected)

ForCleanupWitness ==
    /\ scenario.family = "cleanup" /\ scenario.plain = <<"reuse">>
    /\ LoopReturns /\ OuterLoops /= {} /\ Top.name = "j" /\ Top.k = 2
    /\ Leaders = <<"LET", "FOR", "l1", "l1", "FOR", "FOR", "l2", "FOR_END", "FOR", "l3", "l3">>

\* C24: an operand that is a STRING and neither a decimal number nor a valid
\* colour is no numeral: an operator given it yields nothing, and ENUM reads
\* the numerals before it only.
NumeralRejects ==
    Fetched /\ scenario.family = "numeral" => cfg.got = Expected

\* the same for the operands that are numbers or invalid colours
NumeralAccepts ==
    Fetched /\ scenario.family = "numeral" /\ scenario.plain /= <<"abc">> => cfg.got = Expected

\* C25: IF_* reads two numerals and two branches and yields the first branch
\* if the comparison holds, the second if not; the other branch gives the
\* line no value and leaves nothing to replay, whether it is a word, an
\* operator or a variable injection.
IfBranches ==
    Fetched /\ scenario.family = "branch" => cfg.got = Expected

\* the same when the losing branch is an operator or a variable of one value
IfBranchesSingle ==
    Fetched /\ scenario.family = "branch" /\ scenario.plain[1] \notin {"many_first", "many_second"}
    => cfg.got = Expected

\* declare_enum has returned to the dispatcher in a scenario of the guard
\* family whose ENUM line lacks what a binding needs
EnumRejected ==
    /\ scenario.family = "guard" /\ scenario.plain /= <<"ok">>
    /\ At("goto_eol") /\ Top.type = "ENUM_DECLARATION"

Variables(c) == {k \in DOMAIN c.keys_vars : k[2] = CONTEXT_DICT_VARIABLE}

\* C26: declare_enum binds only if the name token is valid, a numeral was
\* read, steps >= 1 and precision >= 0; otherwise the variable book and
\* keys_vars are as before the line, and the lines after it see them so.
EnumGuards ==
    /\ EnumRejected => /\ ctx.vars.groups = <<<<"k">>>>
                       /\ Variables(ctx) = {<<"e", CONTEXT_DICT_VARIABLE>>}
    /\ Fetched /\ scenario.family = "guard" => cfg.got = Expected

\* the same for the lines whose name token, if there is one, is valid
EnumGuardsNamed ==
    /\ EnumRejected /\ scenario.plain /= <<"badname">>
       => /\ ctx.vars.groups = <<<<"k">>>>
          /\ Variables(ctx) = {<<"e", CONTEXT_DICT_VARIABLE>>}
    /\ Fetched /\ scenario.family = "guard" /\ scenario.plain /= <<"badname">>
       => cfg.got = Expected

HasQuote(word) == \E p \in 1..Len(word) : CharAt(word, p) \in {"'", "\""}

\* the words of the resources declared so far
ResourceWords ==
    UNION {{ctx.sequences.groups[g][i] : i \in 1..Len(ctx.sequences.groups[g])} :
              g \in 1..Len(ctx.sequences.groups)}

\* C27 as stated: no token the lexer returns holds a quote character.
QuoteFree == \A w \in ResourceWords : ~HasQuote(w)

\* C27: a quote character opens or closes its quoting state only while the
\* other state is closed; within an open quote the separators, the newline
\* and the quote character of the other kind are characters of the token.
QuoteRules ==
    Fetched /\ scenario.family = "quote" => cfg.got = Expected

QuoteRulesWitness ==
    /\ scenario.family = "quote" /\ scenario.plain = <<"apostrophe">>
    /\ Fetched /\ cfg.key = <<"x", "p">> /\ cfg.got = <<"it's", "z">>

\* the words of the variables declared so far
VariableWords ==
    UNION {{ctx.vars.groups[g][i] : i \in 1..Len(ctx.vars.groups[g])} :
              g \in 1..Len(ctx.vars.groups)}

\* C28: no token of the lexer or of JOIN is longer than TOKEN_MAX_LEN - 1
\* characters; of a longer word the first TOKEN_MAX_LEN - 1 characters are
\* the token, the rest is dropped and starts no token, and no error is set.
TokenCapacity ==
    /\ \A w \in ResourceWords \cup VariableWords : Len(w) <= TOKEN_MAX_LEN - 1
    /\ stack /= <<>> => Len(Top.token) <= TOKEN_MAX_LEN - 1 /\ Len(Top.name) <= TOKEN_MAX_LEN - 1
    /\ Fetched /\ scenario.family = "capacity" => cfg.got = Expected /\ cfg.err = CERR_NONE

TokenCapacityWitness ==
    /\ scenario.family = "capacity" /\ scenario.plain = <<"over">>
    /\ Fetched /\ cfg.key = <<"x", "p">> /\ Len(cfg.got) = 2
    /\ Len(cfg.got[1]) = TOKEN_MAX_LEN - 1 /\ cfg.got[2] = "z"

\* what a read of the buffer in the current state would return
NextWord == read_word(ctx)

\* the character that ends the next word if no quote stands in the buffer
Terminator == NextStop(ctx.buffer, SkipLead(ctx.buffer, ctx.pos))

\* C29: a newline outside quotes ends the token and sets eol_reached only;
\* the end of the buffer ends the token, also within an open quote, and sets
\* eof_reached and eol_reached; with eol_reached set a read returns nothing
\* and consumes nothing; the read position never passes the end of the buffer.
LexerLineState ==
    /\ ctx.pos <= Len(ctx.buffer) + 1
    /\ NextWord.ctx.pos <= Len(ctx.buffer) + 1
    /\ ctx.eol_reached => ~NextWord.ok /\ NextWord.ctx = ctx
    /\ ~ctx.eol_reached
       => /\ NextWord.ctx.pos >= ctx.pos
          /\ NextWord.ctx.eof_reached /\ ~ctx.eof_reached
             => NextWord.ctx.eol_reached /\ NextWord.ctx.pos = Len(ctx.buffer) + 1
          /\ NextWord.ctx.eol_reached /\ NextWord.ctx.eof_reached = ctx.eof_reached
             => CharAt(ctx.buffer, NextWord.ctx.pos - 1) = "\n"
          /\ ~NextWord.ctx.eol_reached
             => /\ CharAt(ctx.buffer, NextWord.ctx.pos - 1) \in Separators
                /\ NextWord.ctx.eof_reached = ctx.eof_reached
    /\ ~ctx.eol_reached /\ ~HasQuote(ctx.buffer)
       => /\ NextWord.token = SubSeq(ctx.buffer, SkipLead(ctx.buffer, ctx.pos),
                                     IF Terminator - SkipLead(ctx.buffer, ctx.pos)
                                        > TOKEN_MAX_LEN - 1
                                     THEN SkipLead(ctx.buffer, ctx.pos) + TOKEN_MAX_LEN - 2
                                     ELSE Terminator - 1)
          /\ CharAt(ctx.buffer, Terminator) = "\n"
             => /\ NextWord.ctx.eol_reached /\ NextWord.ctx.eof_reached = ctx.eof_reached
                /\ NextWord.ctx.pos = Terminator + 1
          /\ CharAt(ctx.buffer, Terminator) = NUL
             => /\ NextWord.ctx.eol_reached /\ NextWord.ctx.eof_reached
                /\ NextWord.ctx.pos = Terminator
          /\ CharAt(ctx.buffer, Terminator) \in Separators
             => /\ ~NextWord.ctx.eol_reached /\ NextWord.ctx.eof_reached = ctx.eof_reached
                /\ NextWord.ctx.pos = Terminator + 1
    /\ scenario.family = "openquote" /\ Loaded
       => /\ ctx.eof_reached /\ ctx.eol_reached /\ ctx.pos = Len(ctx.buffer) + 1
          /\ Fetched => cfg.got = Expected

LexerLineStateWitness ==
    /\ scenario.family = "openquote" /\ scenario.plain = <<"newline">>
    /\ Fetched /\ cfg.key = <<"x", "p">> /\ cfg.got = <<"w", "a\nb">>
    /\ ctx.eof_reached /\ ctx.eol_reached

\* a call of sequence_parse returns: at the depth guard, or after the switch
DispatcherReturns ==
    /\ cfg.phase = "parsing" /\ stack /= <<>>
    /\ Top.pc \in {"sequence_parse", "goto_eol"}
    /\ Len(stack') = Len(stack) - 1

\* C30: whenever the dispatcher returns, eol_reached is set and var_i and
\* it_i hold the sentinel: the tokens a handler left unread and the values of
\* an injected variable that were not read are no tokens of the next line.
LineDone ==
    /\ [][DispatcherReturns
          => ctx'.eol_reached /\ ctx'.var_i = SIZE_MAX /\ ctx'.it_i = SIZE_MAX]_vars
    /\ [](scenario.family = "leftover" /\ Loaded
            => /\ Leaders = <<"LET", "SEED", "x", "FOR", "z", "z", "z", "last">>
               /\ Fetched => cfg.got = Expected)

LineDoneWitness ==
    /\ scenario.family = "leftover" /\ At("goto_eol") /\ Top.type = "SEED"
    /\ ctx.var_i < cbook_group_length(ctx.vars, ctx.var_group)
    /\ ~ctx.eol_reached
\* the kinds of the leaders dispatched so far
LeaderTypes == [n \in 1..Len(log.lines) |-> log.lines[n].type]

\* C31: the token after ESCAPE is a STRING as it stands: an escaped keyword
\* among the values of a resource is stored as that word, and an escaped
\* keyword that leads a line is the namespace of a resource declaration; the
\* handler of the keyword does not run.
EscapeLiteral ==
    scenario.family = "literal"
    => /\ \A n \in 1..Len(log.lines) :
             log.lines[n].token \in {"LET", "RESTRICT", "FOR", "FOR_END", "EOF"}
             /\ log.lines[n].type /= TOKEN_STRING
             => /\ log.lines[n] = [type |-> "VAR_DECLARATION", token |-> "LET"]
                /\ n = (IF scenario.plain[1] \in {"declare", "loop"} THEN 1 ELSE 2)
       /\ ~ctx.restricted /\ cbook_length(ctx.iteration) = 0
       /\ Loaded => Len(log.lines) = (IF scenario.plain[1] = "loop" THEN 4 ELSE 3)
       /\ Fetched => cfg.got = Expected

EscapeLiteralWitness ==
    /\ scenario.family = "literal" /\ scenario.plain = <<"restrict">>
    /\ Fetched /\ cfg.key = <<"RESTRICT", "v">> /\ cfg.got = <<"x">>
    /\ LeaderTypes = <<TOKEN_STRING, "VAR_DECLARATION", TOKEN_STRING>>

\* combine_var has returned to the dispatcher in a scenario of the combine family
Combined ==
    /\ scenario.family = "combine" /\ At("goto_eol")
    /\ Top.type \in {"VAR_APPEND", "VAR_PREPEND", "VAR_MERGE"}

\* C32: combine_var binds the destination to a new group with one value for
\* each value of the source: the value and the operand for APPEND, the
\* operand and the value for PREPEND, the value and the value of the same
\* index of the variable the operand names for MERGE; the source keeps its
\* values; if the source is unbound, or the operand of MERGE is, no group is
\* added and no binding written.
CombineValues ==
    /\ Combined
       => /\ ctx.vars.groups
             = <<<<"x1", "x2", "x3">>, <<"y1", "y2", "y3">>, <<"old">>>>
               \o (IF CombineLines[scenario.plain[1]].group = 3
                   THEN <<CombineLines[scenario.plain[1]].d>> ELSE <<>>)
          /\ ctx.keys_vars
             = (<<"s", CONTEXT_DICT_VARIABLE>> :> 0) @@ (<<"y", CONTEXT_DICT_VARIABLE>> :> 1)
               @@ (<<"d", CONTEXT_DICT_VARIABLE>> :> CombineLines[scenario.plain[1]].group)
          /\ ~ctx.vars.newgrp
    /\ Fetched /\ scenario.family = "combine" => cfg.got = Expected

CombineValuesWitness ==
    /\ Combined /\ scenario.plain = <<"merge">>
    /\ ctx.vars.groups[4] = <<"x1y1", "x2y2", "x3y3">>

\* C33: once eof_reached is set, by the end of the buffer or by an EOF marker
\* that is evaluated, no line of the source is dispatched any more, the lines
\* and values left of a FOR body in replay included.
EofStops ==
    Fetched /\ scenario.family = "marker" => cfg.got = Expected

\* the same for a marker outside the body of a FOR
EofStopsSource ==
    Fetched /\ scenario.family = "marker" /\ scenario.plain /= <<"body">> => cfg.got = Expected

\* eof_reached is not cleared while the source is parsed
EofSticky ==
    [][cfg.phase = "parsing" /\ ctx.eof_reached /\ Len(stack') >= Len(stack)
       /\ ~At("include_tokens")
       => ctx'.eof_reached]_vars

\* C34: a COMMENT token ends its line: the tokens after it up to the newline
\* have no effect and the line after the newline is dispatched, whatever the
\* characters of the comment, at the top level and in the body of a FOR.
CommentEndsLine ==
    Fetched /\ scenario.family = "comment" => cfg.got = Expected

\* the same for comments without a quote character in a captured body and
\* comments that are not the first branch of an IF_*
CommentEndsLinePlain ==
    Fetched /\ scenario.family = "comment" /\ scenario.plain[1] \notin {"bodyquote", "branch"}
    => cfg.got = Expected

\* the namespaces of keys_sequences: the keys under id 0
Namespaces == {k[1] : k \in {e \in DOMAIN ctx.keys_sequences : e[2] = 0}}

NamespaceId(ns) == cdict_value(ctx.keys_sequences, ns, 0)

\* the properties declared in some namespace
Properties == {k[1] : k \in {e \in DOMAIN ctx.keys_sequences : e[2] /= 0}}

\* C35: every namespace has an id of 1 or more, two namespaces have
\* different ids, and a property of one namespace and a property of another
\* never resolve to the same group, also when declarations without values
\* stand between the declarations of the namespaces.  (A book that has
\* latched its error counts no groups; the load has failed then and no
\* resource can be fetched.)
NamespaceIds ==
    /\ ~ctx.sequences.err
       => /\ \A ns \in Namespaces : NamespaceId(ns) >= 1
          /\ \A ns1, ns2 \in Namespaces : ns1 /= ns2 => NamespaceId(ns1) /= NamespaceId(ns2)
          /\ \A ns1, ns2 \in Namespaces : \A p1, p2 \in Properties :
                ns1 /= ns2 /\ FetchGroup(ctx, ns1, p1) /= NoGroup
                => FetchGroup(ctx, ns1, p1) /= FetchGroup(ctx, ns2, p2)
          /\ \A e \in DOMAIN ctx.keys_sequences :
                e[2] /= 0 => \E ns \in Namespaces : NamespaceId(ns) = e[2]
    /\ Fetched /\ scenario.family = "namespace" => cfg.got = Expected

NamespaceIdsWitness ==
    /\ scenario.family = "namespace" /\ Loaded
    /\ Namespaces = {"a", "b", "c", "d"}
    /\ NamespaceId("a") = 1 /\ NamespaceId("c") = 2 /\ NamespaceId("d") = 5
    /\ NamespaceId("b") = 7
    /\ FetchGroup(ctx, "d", "a") = 5 /\ FetchGroup(ctx, "a", "a") = NoGroup

\* C36: restricted and skip_sequences are never both true: a RESTRICT line
\* in an inactive section leaves restricted as it is, a SECTION line in
\* restricted mode leaves skip_sequences as it is, and the lines after them
\* are declared accordingly.
RestrictedOrSkipping ==
    /\ ~(ctx.restricted /\ ctx.skip_sequences)
    /\ At("goto_eol") /\ Top.type = "SECTION_BEGIN" /\ Top.entry_restricted
       => ~ctx.skip_sequences
    /\ Fetched /\ scenario.family = "mode" => cfg.got = Expected
    /\ Loaded /\ scenario.family = "mode"
       => (ctx.restricted <=> scenario.plain /= <<"skipped">>)

\* a SECTION line with an unregistered tag has returned in restricted mode
RestrictedOrSkippingWitness ==
    /\ scenario.family = "mode" /\ scenario.plain = <<"active">>
    /\ At("goto_eol") /\ Top.type = "SECTION_BEGIN" /\ Top.entry_restricted
    /\ ~Registered("u") /\ ~ctx.skip_sequences

\* a RESTRICT line was dispatched in an inactive section
SkippedRestrictWitness ==
    /\ scenario.family = "mode" /\ scenario.plain = <<"skipped">>
    /\ At("goto_eol") /\ ctx.skip_sequences /\ ~ctx.restricted
    /\ Len(log.lines) = 2 /\ log.lines[2].token = "RESTRICT"

\* the leaders dispatched so far, in order
LeaderTokens == [n \in 1..Len(log.lines) |-> log.lines[n].token]

\* C37: an outermost FOR line that is rejected before the capture of its
\* body (its variable is not bound; an alias is never bound under ITERATION
\* at the outermost level) skips nothing but itself: the lines of its body
\* are each dispatched once as ordinary lines, a FOR line among them opening
\* a loop of its own, the bare FOR_END line is dispatched as a leader and
\* declares nothing, and the iteration book stays empty.
RejectedFor ==
    /\ scenario.family = "rejected" /\ Loaded
       => /\ LeaderTokens = RejectedLines[scenario.plain[1]].leaders
          /\ "FOR_END" \notin Namespaces
          /\ Namespaces = {"x", "y", "z"}
          /\ cbook_length(ctx.iteration) = 0
          /\ Aliases(ctx) = {}
    /\ scenario.family = "rejected" /\ scenario.plain /= <<"inner">>
          /\ cfg.phase = "parsing"
       => cbook_length(ctx.iteration) = 0
    /\ scenario.family = "rejected" /\ At("goto_eol") /\ Top.type = "FOR_BEGIN"
          /\ scenario.plain /= <<"inner">>
       => ~ctx.eof_reached
    /\ Fetched /\ scenario.family = "rejected" => cfg.got = Expected

RejectedForWitness ==
    /\ scenario.family = "rejected" /\ scenario.plain = <<"unbound">> /\ Loaded
    /\ LeaderTokens = <<"LET", "FOR", "x", "y", "FOR_END", "z">>
    /\ FetchGroup(ctx, "x", "p") /= NoGroup /\ FetchGroup(ctx, "y", "q") /= NoGroup

\* C38: an outermost FOR line over a bound variable whose block the source
\* does not close replays its body zero times: when its handler returns
\* eof_reached is set and the iteration book is empty, no line after the FOR
\* line is dispatched, no resource of the body is declared and no alias is
\* left behind.
UnterminatedFor ==
    /\ scenario.family = "unterminated" /\ Loaded
       => /\ LeaderTokens = UnterminatedLines[scenario.plain[1]].leaders
          /\ Namespaces = {"a"}
          /\ cbook_length(ctx.iteration) = 0
          /\ Aliases(ctx) = {}
    /\ scenario.family = "unterminated" /\ At("goto_eol") /\ Top.type = "FOR_BEGIN"
          /\ Len(log.lines) = Len(UnterminatedLines[scenario.plain[1]].leaders)
       => /\ ctx.eof_reached
          /\ cbook_length(ctx.iteration) = 0
          /\ cbook_groups_number(ctx.iteration) = 0
          /\ Aliases(ctx) = {}
    /\ Fetched /\ scenario.family = "unterminated" => cfg.got = Expected

UnterminatedForWitness ==
    /\ scenario.family = "unterminated" /\ scenario.plain = <<"body">>
    /\ At("goto_eol") /\ Top.type = "FOR_BEGIN"
    /\ ctx.eof_reached /\ cbook_length(ctx.iteration) = 0
    /\ LeaderTokens = <<"a", "LET", "FOR">>

\* C39: an EOF marker in an inactive section is not honoured: eof_reached
\* stays false while skip_sequences is set, and the lines after the SECTION
\* line that makes the source active again are dispatched and declared.
EofInactive ==
    /\ scenario.family = "inactive" /\ At("goto_eol") /\ ctx.skip_sequences
          /\ Top.token = "EOF"
       => ~ctx.eof_reached
    /\ Fetched /\ scenario.family = "inactive" => cfg.got = Expected

\* the same for a marker that is not the leader of its line
EofInactiveValue ==
    /\ scenario.family = "inactive" /\ scenario.plain = <<"value">>
          /\ At("goto_eol") /\ ctx.skip_sequences
       => ~ctx.eof_reached
    /\ Fetched /\ scenario.family = "inactive" /\ scenario.plain = <<"value">>
       => cfg.got = Expected

\* a marker that leads a line of an inactive section ends the source
EofInactiveLeader ==
    scenario.family = "inactive" /\ scenario.plain = <<"leader">> /\ Loaded
    => /\ LeaderTokens = <<"SECTION", "EOF">>
       /\ ctx.eof_reached /\ ctx.skip_sequences
       /\ Namespaces = {}

====
